---------------------------- MODULE Spec2Model ----------------------------
(***************************************************************************)
(* Model of the particle physics engine of sand_simulation                 *)
(* (src/sand_physics.py): SpatialGrid, Particle, PhysicsEngine.            *)
(*                                                                         *)
(* Numbers.  The program computes in float32/float64.  The model computes  *)
(* in fixed point, every operation rounded to the nearest representable    *)
(* value:                                                                  *)
(*   lengths, positions      1/1000 of a world unit            (Milli)     *)
(*   velocities              1/1000 of a world unit per second (Milli)     *)
(*   accelerations, cohesion 1/1000 of a world unit per second^2           *)
(*   friction, restitution, viscosity, gravity scales, colours: 1/100 (Pct)*)
(*   masses                  1/10                              (MassDen)   *)
(*   time                    a rational number of ticks, <<num, den>>,     *)
(*                           1 tick = 1/3000 s                 (TimeDen)   *)
(* Indices.  Python's particle index i is the model's index i + 1          *)
(* (sequences are 1-based); the order of the list is the same.             *)
(***************************************************************************)
EXTENDS Integers, Sequences, FiniteSets, TLC

Milli == 10 * 10 * 10
Pct == 10 * 10
MassDen == 5 + 5
TimeDen == 3 * Milli

(***************************************************************************)
(* Bounds of the exploration.                                              *)
(***************************************************************************)
\* particles created in one run (add_particle calls, burst members included)
MaxCreated == 2
\* update() calls in one run
MaxUpdates == 2
\* changes of a global tunable in one run
MaxTunes == 1
\* largest sub_steps value the panel is moved to
MaxSubSteps == 2

(***************************************************************************)
(* Arithmetic helpers.                                                     *)
(***************************************************************************)
Abs(a) == IF a < 0 THEN -a ELSE a

\* a / b rounded to the nearest integer (b > 0)
RoundDiv(a, b) == (a + (b \div 2)) \div b

\* Python's int(a / b): truncation toward zero (b > 0)
TruncDiv(a, b) == IF a >= 0 THEN a \div b ELSE -((-a) \div b)

\* mathematical floor(a / b) (b > 0)
FloorDiv(a, b) == a \div b

RECURSIVE GCD(_, _)
GCD(a, b) == IF b = 0 THEN a ELSE GCD(b, a % b)

RECURSIVE SqrtSearch(_, _, _)
SqrtSearch(n, lo, hi) ==
    IF lo >= hi THEN lo
    ELSE LET mid == (lo + hi + 1) \div 2
         IN  IF mid * mid <= n THEN SqrtSearch(n, mid, hi)
             ELSE SqrtSearch(n, lo, mid - 1)

\* np.sqrt on a non-negative fixed-point square: nearest integer root
Sqrt(n) ==
    LET r == SqrtSearch(n, 0, 46000)
    IN  IF n - r * r > r THEN r + 1 ELSE r

Axes == 1..3

VAdd(a, b) == <<a[1] + b[1], a[2] + b[2], a[3] + b[3]>>
VSub(a, b) == <<a[1] - b[1], a[2] - b[2], a[3] - b[3]>>
Dot(a, b) == a[1] * b[1] + a[2] * b[2] + a[3] * b[3]
Zero3 == <<0, 0, 0>>

\* rational time values <<num, den>>, den > 0, kept in lowest terms
RatNorm(r) ==
    LET g == GCD(Abs(r[1]), r[2])
    IN  IF r[1] = 0 THEN <<0, 1>> ELSE <<r[1] \div g, r[2] \div g>>
RatAdd(r, s) == RatNorm(<<r[1] * s[2] + s[1] * r[2], r[2] * s[2]>>)

\* x * dt for a time dt = <<num, den>> ticks, back in x's unit per second
MulDt(x, dt) == RoundDiv(x * dt[1], dt[2] * TimeDen)

(***************************************************************************)
(* SandType, SandProperties, DEFAULT_SAND_PROPERTIES.                      *)
(***************************************************************************)
SandType == {"NORMAL", "LOURD", "LEGER", "REBONDISSANT", "VISQUEUX", "EXPLOSIF"}

SandProperties(name, color, mass, friction, restitution, cohesion, viscosity, gravity_scale, particle_size) ==
    [name |-> name, color |-> color, mass |-> mass, friction |-> friction,
     restitution |-> restitution, cohesion |-> cohesion, viscosity |-> viscosity,
     gravity_scale |-> gravity_scale, particle_size |-> particle_size]

DEFAULT_SAND_PROPERTIES ==
    [t \in SandType |->
       CASE t = "NORMAL" ->
              SandProperties("Sable Normal", <<96, 87, 70>>, 10, 40, 10, 0, 0, 100, 500)
         [] t = "LOURD" ->
              SandProperties("Sable Lourd", <<40, 35, 30>>, 30, 60, 5, 100, 10, 150, 600)
         [] t = "LEGER" ->
              SandProperties("Sable Leger", <<100, 98, 90>>, 3, 20, 30, 0, 0, 50, 400)
         [] t = "REBONDISSANT" ->
              SandProperties("Sable Rebondissant", <<20, 80, 40>>, 8, 20, 80, 0, 0, 100, 500)
         [] t = "VISQUEUX" ->
              SandProperties("Sable Visqueux", <<60, 30, 10>>, 15, 80, 0, 500, 70, 80, 550)
         [] t = "EXPLOSIF" ->
              SandProperties("Sable Explosif", <<100, 30, 10>>, 10, 30, 50, 0, 0, 100, 450)]

(***************************************************************************)
(* Engine constants (PhysicsEngine.__init__).                              *)
(***************************************************************************)
gravity == <<0, -9810, 0>>
bounds == << <<-25000, 0, -25000>>, <<25000, 50000, 25000>> >>
cell_size == 1500
DefaultTimeStep == 50
DefaultSubSteps == 2

\* an omitted optional argument, a None result; Some(x) is a given argument
None == <<>>
Some(x) == <<x>>

\* how the last call ended: the value it returned, or the exception it raised
Returned(value) == [raised |-> FALSE, value |-> value, exception |-> ""]
Raised(exception) == [raised |-> TRUE, value |-> <<>>, exception |-> exception]

(***************************************************************************)
(* State.                                                                  *)
(***************************************************************************)
VARIABLES
    particles,             \* PhysicsEngine.particles: sequence of Particle records
    grid,                  \* SpatialGrid.grid: function cell -> sequence of indices
    sand_properties,       \* the shared DEFAULT_SAND_PROPERTIES records
    time_step,             \* PhysicsEngine.time_step, ticks
    sub_steps,             \* PhysicsEngine.sub_steps
    global_gravity_scale,  \* Pct
    global_friction,       \* Pct
    enable_collisions,
    enable_cohesion,
    pc,                    \* position inside update(): "idle" outside it
    cur,                   \* index of the particle the step loop is at
    sub_dt,                \* the dt _update_step was called with
    steps_left,            \* iterations of update()'s loop still to run
    call,                  \* the running update() call: its dt, sub_steps, steps run,
                           \* the ages the particles had and the list it found when it was made
    ret,                   \* what the last call returned or raised
    nextId,                \* particles created so far (identity of the next one)
    updates,               \* update() calls made so far
    tunes,                 \* tunable changes, panel edits or presets applied so far
    inserted               \* SpecGrid: the <<index, position>> inserted since clear()

engine == <<particles, grid, sand_properties>>
tunables == <<time_step, sub_steps, global_gravity_scale, global_friction,
              enable_collisions, enable_cohesion>>
control == <<pc, cur, sub_dt, steps_left, call>>
counters == <<nextId, updates, tunes>>
vars == <<engine, tunables, control, ret, counters, inserted>>

\* properties a particle uses: the shared record of its type, or its own
Props(p) ==
    IF p.properties[1] = "shared" THEN sand_properties[p.properties[2]]
    ELSE p.properties[2]

\* Particle(position, velocity, sand_type, properties): age 0, active
Particle(id, position, velocity, sand_type, properties) ==
    [id |-> id, position |-> position, velocity |-> velocity,
     sand_type |-> sand_type, properties |-> properties,
     age |-> <<0, 1>>, is_active |-> TRUE]

\* no update() call yet
NoCall ==
    [dt_arg |-> None, dt |-> 0, sub_steps |-> 0, steps |-> 0, dts |-> {}, ages |-> <<>>,
     start |-> <<>>]

Init ==
    /\ particles = <<>>
    /\ grid = <<>>
    /\ sand_properties = DEFAULT_SAND_PROPERTIES
    /\ time_step = DefaultTimeStep
    /\ sub_steps = DefaultSubSteps
    /\ global_gravity_scale = Pct
    /\ global_friction = Pct
    /\ enable_collisions = TRUE
    /\ enable_cohesion = TRUE
    /\ pc = "idle"
    /\ cur = 0
    /\ sub_dt = <<0, 1>>
    /\ steps_left = 0
    /\ call = NoCall
    /\ ret = Returned(None)
    /\ nextId = 0
    /\ updates = 0
    /\ tunes = 0
    /\ inserted = <<>>

(***************************************************************************)
(* SpatialGrid.                                                            *)
(***************************************************************************)
\* SpatialGrid._get_cell: int(position[k] / cell_size) on every axis
get_cell(position) ==
    <<TruncDiv(position[1], cell_size),
      TruncDiv(position[2], cell_size),
      TruncDiv(position[3], cell_size)>>

\* SpatialGrid.clear
grid_clear == <<>>

\* SpatialGrid.insert
grid_insert(g, particle_idx, position) ==
    LET cell == get_cell(position)
    IN  IF cell \in DOMAIN g
        THEN [g EXCEPT ![cell] = Append(@, particle_idx)]
        ELSE g @@ (cell :> <<particle_idx>>)

\* the 27 offsets in the order of the three nested range(-1, 2) loops
Offsets ==
    [k \in 1..27 |->
       <<((k - 1) \div 9) - 1, (((k - 1) \div 3) % 3) - 1, ((k - 1) % 3) - 1>>]

RECURSIVE GatherCells(_, _, _)
GatherCells(g, cell, k) ==
    IF k > 27 THEN <<>>
    ELSE LET neighbor_cell == <<cell[1] + Offsets[k][1], cell[2] + Offsets[k][2],
                                cell[3] + Offsets[k][3]>>
         IN  (IF neighbor_cell \in DOMAIN g THEN g[neighbor_cell] ELSE <<>>)
             \o GatherCells(g, cell, k + 1)

\* get_neighbors with range(-1, 1) as the innermost loop: dz = 1 is never visited
RECURSIVE GatherCellsShort(_, _, _)
GatherCellsShort(g, cell, k) ==
    IF k > 27 THEN <<>>
    ELSE LET neighbor_cell == <<cell[1] + Offsets[k][1], cell[2] + Offsets[k][2],
                                cell[3] + Offsets[k][3]>>
         IN  (IF neighbor_cell \in DOMAIN g /\ Offsets[k][3] < 1
              THEN g[neighbor_cell] ELSE <<>>)
             \o GatherCellsShort(g, cell, k + 1)

get_neighbors_short(g, position) == GatherCellsShort(g, get_cell(position), 1)

\* SpatialGrid.get_neighbors
get_neighbors(g, position) == GatherCells(g, get_cell(position), 1)

(***************************************************************************)
(* Inputs of the calls.                                                    *)
(***************************************************************************)
CustomProps ==
    SandProperties("Sur mesure", <<50, 50, 50>>, 10, 0, 100, 0, 0, 100, 500)

SpawnChoices ==
    { [position |-> <<-700, 550, 0>>, velocity |-> Zero3,
       sand_type |-> "VISQUEUX", custom_properties |-> None],
      [position |-> <<-700, 1300, 0>>, velocity |-> <<0, -2000, 0>>,
       sand_type |-> "VISQUEUX", custom_properties |-> None],
      [position |-> <<24800, 49900, -25200>>, velocity |-> <<3000, 4000, -1000>>,
       sand_type |-> "LEGER", custom_properties |-> Some(CustomProps)] }

BurstCenters == {<<-200, 700, 100>>}
BurstCounts == {-1, 0, 1, 2}
BurstSpreads == {500}
BurstTypes == {"LOURD"}
BurstVelocities == {None, <<0, -5000, 0>>}
\* pairs of values of (np.random.rand(3) - 0.5) * 2, in Milli: every
\* component in [-1, 1); the first is the offset's draw, the second the velocity's
RandChoices ==
    { <<<<-1000, 0, 999>>, <<500, -500, 0>>>>,
      <<<<400, -300, 0>>, <<-1000, 999, 250>>>> }

DtChoices == {None, Some(300)}
SubStepChoices == -1..MaxSubSteps
TimeStepChoices == {150}
GravityScaleChoices == {0}
FrictionChoices == {0}

(***************************************************************************)
(* PhysicsEngine: particle list operations.                                *)
(***************************************************************************)
Idle == pc = "idle"

\* the list after add_particle(position, velocity, sand_type, custom_properties)
add_particle(ps, id, position, velocity, sand_type, custom_properties) ==
    LET props == IF custom_properties # None THEN <<"own", custom_properties[1]>>
                 ELSE <<"shared", sand_type>>
    IN  Append(ps, Particle(id, position, velocity, sand_type, props))

\* a call of add_particle with arguments drawn from the set choices
AddFrom(choices) ==
    /\ Idle
    /\ nextId < MaxCreated
    /\ \E s \in choices :
          particles' = add_particle(particles, nextId, s.position, s.velocity,
                                    s.sand_type, s.custom_properties)
    /\ ret' = Returned(Some(nextId))
    /\ nextId' = nextId + 1
    /\ UNCHANGED <<inserted, grid, sand_properties, tunables, control, updates, tunes>>

AddParticle == AddFrom(SpawnChoices)

\* a burst loop that runs range(count - 1)
RECURSIVE burst_loop_short(_, _, _, _, _, _, _, _, _)
burst_loop_short(ps, id, center, count, spread, sand_type, initial_velocity, rands, k) ==
    IF k > count - 1 THEN ps
    ELSE LET pos == VAdd(center, <<RoundDiv(rands[k][1][1] * spread, Milli),
                                   RoundDiv(rands[k][1][2] * spread, Milli),
                                   RoundDiv(rands[k][1][3] * spread, Milli)>>)
             vel == VAdd(initial_velocity, rands[k][2])
         IN  burst_loop_short(add_particle(ps, id + k - 1, pos, vel, sand_type, None), id,
                              center, count, spread, sand_type, initial_velocity, rands,
                              k + 1)

RECURSIVE burst_loop(_, _, _, _, _, _, _, _, _)
burst_loop(ps, id, center, count, spread, sand_type, initial_velocity, rands, k) ==
    IF k > count THEN ps
    ELSE LET r == rands[k]
             offset == <<RoundDiv(r[1][1] * spread, Milli),
                         RoundDiv(r[1][2] * spread, Milli),
                         RoundDiv(r[1][3] * spread, Milli)>>
             pos == VAdd(center, offset)
             vel == VAdd(initial_velocity, r[2])
         IN  burst_loop(add_particle(ps, id + k - 1, pos, vel, sand_type, None), id,
                        center, count, spread, sand_type, initial_velocity, rands, k + 1)

\* the list after add_particles_burst; rands[k] = the two random draws of round k
add_particles_burst(ps, id, center, count, spread, sand_type, initial_velocity, rands) ==
    LET iv == IF initial_velocity = None THEN Zero3 ELSE initial_velocity
    IN  burst_loop(ps, id, center, count, spread, sand_type, iv, rands, 1)

BurstCall(center, count, spread, sand_type, initial_velocity) ==
    /\ Idle
    /\ nextId + (IF count > 0 THEN count ELSE 0) <= MaxCreated
    /\ \E rands \in [1..count -> RandChoices] :
          particles' = add_particles_burst(particles, nextId, center, count, spread,
                                           sand_type, initial_velocity, rands)
    /\ nextId' = nextId + (IF count > 0 THEN count ELSE 0)
    /\ ret' = Returned(None)
    /\ UNCHANGED <<inserted, grid, sand_properties, tunables, control, updates, tunes>>

AddParticlesBurst ==
    \E center \in BurstCenters, count \in BurstCounts, spread \in BurstSpreads,
       sand_type \in BurstTypes, initial_velocity \in BurstVelocities :
       BurstCall(center, count, spread, sand_type, initial_velocity)

\* clear_particles
ClearParticles ==
    /\ Idle
    /\ particles' = <<>>
    /\ ret' = Returned(None)
    /\ UNCHANGED <<inserted, grid, sand_properties, tunables, control, counters>>

\* a caller clears Particle.is_active of the particle at index i
Deactivate ==
    /\ Idle
    /\ \E i \in 1..Len(particles) :
          /\ particles[i].is_active
          /\ particles' = [particles EXCEPT ![i].is_active = FALSE]
    /\ ret' = Returned(None)
    /\ UNCHANGED <<inserted, grid, sand_properties, tunables, control, counters>>

(***************************************************************************)
(* The global tunables, set from outside between updates.                  *)
(***************************************************************************)
Tune(changed) ==
    /\ Idle
    /\ tunes < MaxTunes
    /\ tunes' = tunes + 1
    /\ ret' = Returned(None)
    /\ UNCHANGED <<inserted, engine, control, nextId, updates>>
    /\ UNCHANGED changed

SetSubSteps ==
    /\ \E v \in SubStepChoices : v # sub_steps /\ sub_steps' = v
    /\ Tune(<<time_step, global_gravity_scale, global_friction, enable_collisions,
              enable_cohesion>>)

SetTimeStep ==
    /\ \E v \in TimeStepChoices : v # time_step /\ time_step' = v
    /\ Tune(<<sub_steps, global_gravity_scale, global_friction, enable_collisions,
              enable_cohesion>>)

SetGlobalGravityScale ==
    /\ \E v \in GravityScaleChoices : v # global_gravity_scale /\ global_gravity_scale' = v
    /\ Tune(<<time_step, sub_steps, global_friction, enable_collisions,
              enable_cohesion>>)

SetGlobalFriction ==
    /\ \E v \in FrictionChoices : v # global_friction /\ global_friction' = v
    /\ Tune(<<time_step, sub_steps, global_gravity_scale, enable_collisions,
              enable_cohesion>>)

SetEnableCollisions ==
    /\ enable_collisions' = ~enable_collisions
    /\ Tune(<<time_step, sub_steps, global_gravity_scale, global_friction,
              enable_cohesion>>)

SetEnableCohesion ==
    /\ enable_cohesion' = ~enable_cohesion
    /\ Tune(<<time_step, sub_steps, global_gravity_scale, global_friction,
              enable_collisions>>)

(***************************************************************************)
(* PhysicsEngine._update_step: the stages of one particle.                 *)
(***************************************************************************)
MinDistSq == 100
CohesionMinDistSq == 10000
TangentEps == 1
CohesionRadiusFactor == 4

Scale3(v, num, den) ==
    <<RoundDiv(v[1] * num, den), RoundDiv(v[2] * num, den), RoundDiv(v[3] * num, den)>>

\* a rebuild loop without the is_active test
RECURSIVE rebuild_all(_, _, _)
rebuild_all(g, ps, i) ==
    IF i > Len(ps) THEN g
    ELSE rebuild_all(grid_insert(g, i, ps[i].position), ps, i + 1)

\* the grid after the rebuild loop: clear, then insert every active particle
RECURSIVE rebuild_from(_, _, _)
rebuild_from(g, ps, i) ==
    IF i > Len(ps) THEN g
    ELSE rebuild_from(IF ps[i].is_active THEN grid_insert(g, i, ps[i].position) ELSE g,
                      ps, i + 1)

\* a rebuild that does not clear the grid first
rebuild_grid_stale(ps) == rebuild_from(grid, ps, 1)

rebuild_grid(ps) == rebuild_from(grid_clear, ps, 1)

\* velocity += gravity * global_gravity_scale * gravity_scale * dt
apply_gravity(ps, i, dt) ==
    LET gs == Props(ps[i]).gravity_scale
        gravity_force == Scale3(Scale3(gravity, global_gravity_scale, Pct), gs, Pct)
        dv == <<MulDt(gravity_force[1], dt), MulDt(gravity_force[2], dt),
                MulDt(gravity_force[3], dt)>>
    IN  [ps EXCEPT ![i].velocity = VAdd(@, dv)]

\* if viscosity > 0: velocity *= 1 - viscosity * dt
apply_viscosity(ps, i, dt) ==
    LET visc == Props(ps[i]).viscosity
        den == Pct * dt[2] * TimeDen
        v == ps[i].velocity
    IN  IF visc > 0
        THEN [ps EXCEPT ![i].velocity =
                 <<v[1] - RoundDiv(v[1] * visc * dt[1], den),
                   v[2] - RoundDiv(v[2] * visc * dt[1], den),
                   v[3] - RoundDiv(v[3] * visc * dt[1], den)>>]
        ELSE ps

\* a guard that drops the overlap test: dist_sq > 0.0001 only
in_contact_any(dist_sq, min_dist) == dist_sq > MinDistSq

\* dist_sq < min_dist * min_dist and dist_sq > 0.0001
in_contact(dist_sq, min_dist) == dist_sq < min_dist * min_dist /\ dist_sq > MinDistSq

\* a normal impulse three times as strong
normal_impulse_triple(e2, vel_along_normal) ==
    RoundDiv((6 * Pct + e2) * (-vel_along_normal), 2 * Pct)

\* -(1 + restitution) * vel_along_normal, restitution = e2 / 2
normal_impulse(e2, vel_along_normal) ==
    RoundDiv((2 * Pct + e2) * (-vel_along_normal), 2 * Pct)

\* the neighbour receives half of the impulse
other_dv_half(impulse, mass) == Scale3(impulse, 1, 2 * mass)

\* impulse / other.properties.mass
other_dv(impulse, mass) == Scale3(impulse, 1, mass)

\* a tangent that keeps the normal part of the relative velocity
tangent_whole(relative_vel, vel_along_normal, normal) == relative_vel

\* tangent = relative_vel - vel_along_normal * normal
tangent_of(relative_vel, vel_along_normal, normal) == VSub(relative_vel, Scale3(normal, vel_along_normal, Milli))

\* a separation by the whole overlap share, without the factor 0.5
separation_full(normal, overlap, mass, total_mass) == Scale3(normal, overlap * mass, Milli * total_mass)

\* normal * overlap * (mass / total_mass) * 0.5
separation(normal, overlap, mass, total_mass) == Scale3(normal, overlap * mass, Milli * total_mass * 2)

\* the body of the neighbour loop of _handle_particle_collisions for one neighbour
resolve_pair(ps, idx, neighbor_idx) ==
    IF neighbor_idx = idx \/ ~ps[neighbor_idx].is_active THEN ps
    ELSE
    LET P == ps[idx]
        O == ps[neighbor_idx]
        pp == Props(P)
        po == Props(O)
        diff == VSub(P.position, O.position)
        dist_sq == Dot(diff, diff)
        min_dist == pp.particle_size + po.particle_size
    IN  IF ~in_contact(dist_sq, min_dist) THEN ps
        ELSE
        LET dist == Sqrt(dist_sq)
            normal == Scale3(diff, Milli, dist)
            overlap == min_dist - dist
            total_mass == pp.mass + po.mass
            \* separation: position += normal * overlap * mass_ratio * 0.5
            Ppos == VAdd(P.position, separation(normal, overlap, po.mass, total_mass))
            Opos == VSub(O.position, separation(normal, overlap, pp.mass, total_mass))
            relative_vel == VSub(P.velocity, O.velocity)
            van_raw == Dot(relative_vel, normal)
            vel_along_normal == RoundDiv(van_raw, Milli)
            moved == [ps EXCEPT ![idx].position = Ppos, ![neighbor_idx].position = Opos]
        IN  IF van_raw > 0 THEN moved
            ELSE
            LET e2 == pp.restitution + po.restitution
                jn == normal_impulse(e2, vel_along_normal)
                j == RoundDiv(jn * pp.mass * po.mass, total_mass)
                impulse == Scale3(normal, j, Milli)
                Pvel == VAdd(P.velocity, Scale3(impulse, 1, pp.mass))
                Ovel == VSub(O.velocity, other_dv(impulse, po.mass))
                tangent == tangent_of(relative_vel, vel_along_normal, normal)
                tangent_sq == Dot(tangent, tangent)
            IN  IF ~(tangent_sq > TangentEps * TangentEps)
                THEN [moved EXCEPT ![idx].velocity = Pvel,
                                   ![neighbor_idx].velocity = Ovel]
                ELSE
                LET tangent_length == Sqrt(tangent_sq)
                    tn == Scale3(tangent, Milli, tangent_length)
                    fj == RoundDiv(RoundDiv((pp.friction + po.friction) * j, 2 * Pct)
                                   * global_friction, Pct)
                    friction_impulse == Scale3(tn, fj, Milli)
                IN  [moved EXCEPT
                       ![idx].velocity =
                           VSub(Pvel, Scale3(friction_impulse, 1, 2 * pp.mass)),
                       ![neighbor_idx].velocity =
                           VAdd(Ovel, Scale3(friction_impulse, 1, 2 * po.mass))]

RECURSIVE collision_loop(_, _, _, _)
collision_loop(ps, idx, neighbors, k) ==
    IF k > Len(neighbors) THEN ps
    ELSE collision_loop(resolve_pair(ps, idx, neighbors[k]), idx, neighbors, k + 1)

\* _handle_particle_collisions(idx, particle, dt)
handle_particle_collisions(ps, g, idx) ==
    collision_loop(ps, idx, get_neighbors(g, ps[idx].position), 1)

\* a test that lets every active neighbour cohere
coheres_any(P, O) == O.is_active

\* not (not other.is_active or other.sand_type != particle.sand_type)
coheres(P, O) == O.is_active /\ O.sand_type = P.sand_type

\* the body of the neighbour loop of _apply_cohesion for one neighbour
cohere_pair(ps, idx, neighbor_idx, dt) ==
    IF neighbor_idx = idx \/ ~coheres(ps[idx], ps[neighbor_idx])
    THEN ps
    ELSE
    LET P == ps[idx]
        O == ps[neighbor_idx]
        diff == VSub(O.position, P.position)
        dist_sq == Dot(diff, diff)
        cohesion_radius == Props(P).particle_size * CohesionRadiusFactor
    IN  IF ~(dist_sq < cohesion_radius * cohesion_radius /\ dist_sq > CohesionMinDistSq)
        THEN ps
        ELSE
        LET dist == Sqrt(dist_sq)
            direction == Scale3(diff, Milli, dist)
            strength == RoundDiv(Props(P).cohesion * (cohesion_radius - dist),
                                 cohesion_radius)
            acc == Scale3(direction, strength, Milli)
        IN  [ps EXCEPT ![idx].velocity =
                VAdd(@, <<MulDt(acc[1], dt), MulDt(acc[2], dt), MulDt(acc[3], dt)>>)]

RECURSIVE cohesion_loop(_, _, _, _, _)
cohesion_loop(ps, idx, neighbors, dt, k) ==
    IF k > Len(neighbors) THEN ps
    ELSE cohesion_loop(cohere_pair(ps, idx, neighbors[k], dt), idx, neighbors, dt, k + 1)

\* _apply_cohesion(idx, particle, dt)
apply_cohesion(ps, g, idx, dt) ==
    cohesion_loop(ps, idx, get_neighbors(g, ps[idx].position), dt, 1)

\* position += velocity * dt
integrate(ps, i, dt) ==
    LET v == ps[i].velocity
    IN  [ps EXCEPT ![i].position =
            VAdd(@, <<MulDt(v[1], dt), MulDt(v[2], dt), MulDt(v[3], dt)>>)]

\* a wall friction that damps the axis of the wall too
wall_friction_all(v, axis, friction) ==
    [k \in Axes |-> RoundDiv(v[k] * (Pct * Pct - friction), Pct * Pct)]

\* the friction applied to the two other axes when the particle hits a wall
wall_friction(v, axis, friction) ==
    [k \in Axes |-> IF k = axis THEN v[k]
                    ELSE RoundDiv(v[k] * (Pct * Pct - friction), Pct * Pct)]

\* an axis iteration that clamps the position and keeps the velocity
boundary_axis_keep(p, axis, radius, restitution, friction) ==
    IF p.position[axis] < bounds[1][axis] + radius
    THEN [p EXCEPT !.position[axis] = bounds[1][axis] + radius]
    ELSE IF p.position[axis] > bounds[2][axis] - radius
    THEN [p EXCEPT !.position[axis] = bounds[2][axis] - radius]
    ELSE p

\* one iteration of the axis loop of _handle_boundary_collision
boundary_axis(p, axis, radius, restitution, friction) ==
    LET bounce == [p.velocity EXCEPT ![axis] = RoundDiv(-(@ * restitution), Pct)]
        vel == wall_friction(bounce, axis, friction)
        vel3 == <<vel[1], vel[2], vel[3]>>
    IN  IF p.position[axis] < bounds[1][axis] + radius
        THEN [p EXCEPT !.position[axis] = bounds[1][axis] + radius, !.velocity = vel3]
        ELSE IF p.position[axis] > bounds[2][axis] - radius
        THEN [p EXCEPT !.position[axis] = bounds[2][axis] - radius, !.velocity = vel3]
        ELSE p

\* _handle_boundary_collision(particle)
handle_boundary_collision(p) ==
    LET radius == Props(p).particle_size
        restitution == Props(p).restitution
        friction == Props(p).friction * global_friction
        a1 == boundary_axis(p, 1, radius, restitution, friction)
        a2 == boundary_axis(a1, 2, radius, restitution, friction)
    IN  boundary_axis(a2, 3, radius, restitution, friction)

(***************************************************************************)
(* PhysicsEngine.update and the walk through _update_step.                 *)
(***************************************************************************)
\* update(dt): dt defaults to time_step; sub_dt = dt / sub_steps; the loop
\* runs range(sub_steps) times.  Division by sub_steps = 0 raises.
\* an update() that takes the constructor's time step when dt is omitted
UpdateDefaultDt ==
    /\ Idle
    /\ updates < MaxUpdates
    /\ updates' = updates + 1
    /\ \E dtArg \in DtChoices :
          LET dt == IF dtArg = None THEN DefaultTimeStep ELSE dtArg[1]
          IN  IF sub_steps = 0
              THEN /\ ret' = Raised("ZeroDivisionError")
                   /\ UNCHANGED control
              ELSE /\ sub_dt' = IF sub_steps > 0 THEN RatNorm(<<dt, sub_steps>>)
                                ELSE RatNorm(<<-dt, -sub_steps>>)
                   /\ steps_left' = IF sub_steps > 0 THEN sub_steps ELSE 0
                   /\ call' = [dt_arg |-> dtArg, dt |-> dt, sub_steps |-> sub_steps,
                               steps |-> 0, dts |-> {},
                               ages |-> [k \in 1..Len(particles) |-> particles[k].age],
                               start |-> particles]
                   /\ pc' = IF sub_steps > 0 THEN "rebuild" ELSE "idle"
                   /\ cur' = 0
                   /\ ret' = Returned(None)
    /\ UNCHANGED <<inserted, engine, tunables, nextId, tunes>>

Update ==
    /\ Idle
    /\ updates < MaxUpdates
    /\ updates' = updates + 1
    /\ \E dtArg \in DtChoices :
          LET dt == IF dtArg = None THEN time_step ELSE dtArg[1]
          IN  IF sub_steps = 0
              THEN /\ ret' = Raised("ZeroDivisionError")
                   /\ UNCHANGED control
              ELSE /\ sub_dt' = IF sub_steps > 0 THEN RatNorm(<<dt, sub_steps>>)
                                ELSE RatNorm(<<-dt, -sub_steps>>)
                   /\ steps_left' = IF sub_steps > 0 THEN sub_steps ELSE 0
                   /\ call' = [dt_arg |-> dtArg, dt |-> dt, sub_steps |-> sub_steps,
                               steps |-> 0, dts |-> {},
                               ages |-> [k \in 1..Len(particles) |-> particles[k].age],
                               start |-> particles]
                   /\ pc' = IF sub_steps > 0 THEN "rebuild" ELSE "idle"
                   /\ cur' = 0
                   /\ ret' = Returned(None)
    /\ UNCHANGED <<inserted, engine, tunables, nextId, tunes>>

\* the first index >= i of an active particle, Len(ps) + 1 if there is none:
\* the particle loop's `if not particle.is_active: continue`
RECURSIVE NextActive(_, _)
NextActive(ps, i) ==
    IF i > Len(ps) \/ ps[i].is_active THEN i ELSE NextActive(ps, i + 1)

\* the particle loop moves on to index i; past the end _update_step returns
\* and update() starts its next iteration or returns
LoopTo(i) ==
    IF i > Len(particles)
    THEN /\ steps_left' = steps_left - 1
         /\ pc' = IF steps_left = 1 THEN "idle" ELSE "rebuild"
         /\ cur' = 0
    ELSE /\ pc' = "gravity"
         /\ cur' = i
         /\ UNCHANGED steps_left

\* _update_step(dt), first loop: the grid is rebuilt
Rebuild ==
    /\ pc = "rebuild"
    /\ grid' = rebuild_grid(particles)
    /\ call' = [call EXCEPT !.steps = @ + 1, !.dts = @ \cup {sub_dt}]
    /\ LoopTo(NextActive(particles, 1))
    /\ UNCHANGED <<inserted, particles, sand_properties, tunables, sub_dt, ret, counters>>

Stage(from, to, ps) ==
    /\ pc = from
    /\ particles' = ps
    /\ pc' = to
    /\ UNCHANGED <<cur, steps_left>>

StageFrame == UNCHANGED <<inserted, grid, sand_properties, tunables, sub_dt, call, ret, counters>>

Gravity ==
    /\ Stage("gravity", "viscosity", apply_gravity(particles, cur, sub_dt))
    /\ StageFrame

\* a viscosity stage after which the collision stage is skipped
ViscosityThenCohesion ==
    /\ Stage("viscosity", "cohesion", apply_viscosity(particles, cur, sub_dt))
    /\ StageFrame

Viscosity ==
    /\ Stage("viscosity", "collide", apply_viscosity(particles, cur, sub_dt))
    /\ StageFrame

\* a collision stage that does not look at enable_collisions
CollideAlways ==
    /\ Stage("collide", "cohesion", handle_particle_collisions(particles, grid, cur))
    /\ StageFrame

Collide ==
    /\ Stage("collide", "cohesion",
             IF enable_collisions
             THEN handle_particle_collisions(particles, grid, cur)
             ELSE particles)
    /\ StageFrame

Cohesion ==
    /\ Stage("cohesion", "integrate",
             IF enable_cohesion /\ Props(particles[cur]).cohesion > 0
             THEN apply_cohesion(particles, grid, cur, sub_dt)
             ELSE particles)
    /\ StageFrame

Integrate ==
    /\ Stage("integrate", "boundary", integrate(particles, cur, sub_dt))
    /\ StageFrame

Boundary ==
    /\ Stage("boundary", "age",
             [particles EXCEPT ![cur] = handle_boundary_collision(@)])
    /\ StageFrame

\* an age stage that adds the dt of the whole update() at every sub-step
AgeWholeDt ==
    /\ pc = "age"
    /\ particles' = [particles EXCEPT ![cur].age = RatAdd(@, <<call.dt, 1>>)]
    /\ LoopTo(NextActive(particles, cur + 1))
    /\ StageFrame

Age ==
    /\ pc = "age"
    /\ particles' = [particles EXCEPT ![cur].age = RatAdd(@, sub_dt)]
    /\ LoopTo(NextActive(particles, cur + 1))
    /\ StageFrame

(***************************************************************************)
(* Read-only projections.                                                  *)
(***************************************************************************)
RECURSIVE ActiveIndices(_, _)
ActiveIndices(ps, i) ==
    IF i > Len(ps) THEN <<>>
    ELSE (IF ps[i].is_active THEN <<i>> ELSE <<>>) \o ActiveIndices(ps, i + 1)

RECURSIVE SumSeq(_, _)
SumSeq(f, k) == IF k = 0 THEN 0 ELSE f[k] + SumSeq(f, k - 1)

\* np.linalg.norm
Norm(v) == Sqrt(Dot(v, v))

\* statistics over every particle of the list, active or not
get_stats_all(ps) ==
    LET n == Len(ps)
        velocities == [k \in 1..n |-> Norm(ps[k].velocity)]
        heights == [k \in 1..n |-> ps[k].position[2]]
    IN  IF n = 0
        THEN [particle_count |-> 0, avg_velocity |-> 0, avg_height |-> 0]
        ELSE [particle_count |-> n,
              avg_velocity |-> RoundDiv(SumSeq(velocities, n), n),
              avg_height |-> RoundDiv(SumSeq(heights, n), n)]

\* get_stats()
get_stats(ps) ==
    LET act == ActiveIndices(ps, 1)
        active_count == Len(act)
        velocities == [k \in 1..active_count |-> Norm(ps[act[k]].velocity)]
        heights == [k \in 1..active_count |-> ps[act[k]].position[2]]
    IN  IF active_count = 0
        THEN [particle_count |-> 0, avg_velocity |-> 0, avg_height |-> 0]
        ELSE [particle_count |-> active_count,
              avg_velocity |-> RoundDiv(SumSeq(velocities, active_count), active_count),
              avg_height |-> RoundDiv(SumSeq(heights, active_count), active_count)]

RECURSIVE Flatten3(_, _)
Flatten3(f, k) == IF k = 0 THEN <<>> ELSE Flatten3(f, k - 1) \o f[k]

\* render data whose sizes are taken from every particle, active or not
get_particle_data_all_sizes(ps) ==
    LET act == ActiveIndices(ps, 1)
        n == Len(act)
    IN  [positions |-> Flatten3([k \in 1..n |-> ps[act[k]].position], n),
         colors |-> Flatten3([k \in 1..n |-> Props(ps[act[k]]).color], n),
         sizes |-> [k \in 1..Len(ps) |-> Props(ps[k]).particle_size]]

\* get_particle_data()
get_particle_data(ps) ==
    LET act == ActiveIndices(ps, 1)
        n == Len(act)
    IN  IF ps = <<>> THEN [positions |-> <<>>, colors |-> <<>>, sizes |-> <<>>]
        ELSE [positions |-> Flatten3([k \in 1..n |-> ps[act[k]].position], n),
              colors |-> Flatten3([k \in 1..n |-> Props(ps[act[k]]).color], n),
              sizes |-> [k \in 1..n |-> Props(ps[act[k]]).particle_size]]

\* a call of get_stats(): its result is get_stats(particles); it assigns nothing
GetStats ==
    /\ Idle
    /\ UNCHANGED vars

\* a call of get_particle_data(): its result is get_particle_data(particles)
GetParticleData ==
    /\ Idle
    /\ UNCHANGED vars

Next ==
    \/ AddParticle
    \/ AddParticlesBurst
    \/ ClearParticles
    \/ Deactivate
    \/ SetSubSteps
    \/ SetTimeStep
    \/ SetGlobalGravityScale
    \/ SetGlobalFriction
    \/ SetEnableCollisions
    \/ SetEnableCohesion
    \/ Update
    \/ Rebuild
    \/ Gravity
    \/ Viscosity
    \/ Collide
    \/ Cohesion
    \/ Integrate
    \/ Boundary
    \/ Age
    \/ GetStats
    \/ GetParticleData

Spec == Init /\ [][Next]_vars

(***************************************************************************)
(* SpecGrid: the SpatialGrid alone, driven with positions from a bounded   *)
(* set.  The k-th insert since clear() inserts index k.                    *)
(***************************************************************************)
\* inserts between two clear() calls
MaxInserts == 3

GridPositions ==
    { <<0, 0, 0>>, <<-700, 550, 0>>, <<-1500, 1499, 1500>>, <<1600, -10, 2999>>,
      <<-3100, 2000, -1499>>, <<3000, 1500, -1600>> }

GridQueries == GridPositions \cup {<<-1, -1, -1>>, <<4500, 0, -4500>>}

GridInsert ==
    /\ Len(inserted) < MaxInserts
    /\ \E position \in GridPositions :
          /\ grid' = grid_insert(grid, Len(inserted) + 1, position)
          /\ inserted' = Append(inserted, <<Len(inserted) + 1, position>>)
    /\ UNCHANGED <<particles, sand_properties, tunables, control, ret, counters>>

GridClear ==
    /\ grid' = grid_clear
    /\ inserted' = <<>>
    /\ UNCHANGED <<particles, sand_properties, tunables, control, ret, counters>>

\* a call of get_neighbors(q): its result is get_neighbors(grid, q)
GridQuery == UNCHANGED vars

NextGrid ==
    \/ GridInsert
    \/ GridClear
    \/ GridQuery

SpecGrid == Init /\ [][NextGrid]_vars

(***************************************************************************)
(* Properties of the grid (SpecGrid).                                      *)
(***************************************************************************)
FloorCell(position) ==
    <<FloorDiv(position[1], cell_size), FloorDiv(position[2], cell_size),
      FloorDiv(position[3], cell_size)>>

\* the places <<cell, k>> of the grid that hold index idx
PlacesOf(g, idx) ==
    {pl \in UNION {{c} \X (1..Len(g[c])) : c \in DOMAIN g} : g[pl[1]][pl[2]] = idx}

Occurrences(seq, x) == Cardinality({k \in 1..Len(seq) : seq[k] = x})

\* C4: insert(index, position) puts the index in the bucket of the cell
\* (floor(px/s), floor(py/s), floor(pz/s)), for negative coordinates too,
\* creating the bucket if it does not exist.
C4_InsertFloorCell ==
    \A k \in 1..Len(inserted) :
        LET cell == FloorCell(inserted[k][2])
        IN  /\ cell \in DOMAIN grid
            /\ Occurrences(grid[cell], inserted[k][1]) = 1

\* C5: after clear() and the insertion of N particles, get_neighbors(q)
\* returns, for every query position q, exactly the indices whose assigned
\* cell differs from q's cell by at most 1 on every axis, each once, and no
\* other index.
C5_NeighborsExact ==
    \A q \in GridQueries :
        LET res == get_neighbors(grid, q)
            qc == get_cell(q)
            near(c) == \A a \in Axes : Abs(c[a] - qc[a]) <= 1
        IN  /\ \A k \in 1..Len(inserted) :
                  LET idx == inserted[k][1]
                  IN  Occurrences(res, idx) =
                          IF \E pl \in PlacesOf(grid, idx) : near(pl[1]) THEN 1 ELSE 0
            /\ \A j \in 1..Len(res) : \E k \in 1..Len(inserted) : inserted[k][1] = res[j]

\* a query at a negative position returns two of three inserted indices, one
\* of them inserted at a negative position; the third lies outside its block
C5_Witness ==
    /\ Len(inserted) = 3
    /\ \E q \in GridQueries :
          /\ q[1] < 0
          /\ Len(get_neighbors(grid, q)) = 2
          /\ \E k \in 1..3 :
                /\ inserted[k][2][1] < -cell_size
                /\ Occurrences(get_neighbors(grid, q), inserted[k][1]) = 1

(***************************************************************************)
(* Properties of the engine (Spec).                                        *)
(***************************************************************************)
ActiveSet(ps) == {i \in 1..Len(ps) : ps[i].is_active}

RECURSIVE SumOver(_, _)
SumOver(f, S) ==
    IF S = {} THEN 0
    ELSE LET x == CHOOSE y \in S : TRUE IN f[x] + SumOver(f, S \ {x})

\* C1: boundary containment.  After any number of update() calls, every
\* particle that went through them lies on every axis between
\* bounds_min + particle_size - epsilon and bounds_max - particle_size + epsilon
\* (epsilon: one unit of the fixed point, 0.001).
C1_BoundaryContainment ==
    (Idle /\ call.steps > 0) =>
        \A i \in 1..Len(particles) :
            LET p == particles[i]
                size == Props(p).particle_size
            IN  (p.is_active /\ p.age # <<0, 1>>) =>
                    \A a \in Axes :
                        /\ p.position[a] >= bounds[1][a] + size - 1
                        /\ p.position[a] <= bounds[2][a] - size + 1

\* C3: update(dt) runs the step function exactly sub_steps times, each time
\* with dt / sub_steps, with the sub_steps current at the call; an omitted
\* dt is the current time_step.  (sub_steps >= 1; values <= 0 are C17's.)
C3_SubSteps ==
    /\ ~Idle =>
          /\ call.sub_steps = sub_steps
          /\ call.dt = (IF call.dt_arg = None THEN time_step ELSE call.dt_arg[1])
          /\ sub_dt = RatNorm(<<call.dt, call.sub_steps>>)
          /\ call.steps + steps_left =
                 call.sub_steps + (IF pc = "rebuild" THEN 0 ELSE 1)
          /\ call.dts \subseteq {sub_dt}
    /\ (Idle /\ call.sub_steps >= 1) =>
          /\ call.steps = call.sub_steps
          /\ call.dts = {RatNorm(<<call.dt, call.sub_steps>>)}

\* the second update() has returned, after a change of sub_steps or time_step
\* made after the first one: it ran with the changed value
C3_Witness ==
    /\ Idle
    /\ updates = 2
    /\ tunes = 1
    /\ call.steps >= 1
    /\ call.dt_arg = None
    /\ \/ call.sub_steps # DefaultSubSteps
       \/ call.dt # DefaultTimeStep
    /\ \E i \in 1..Len(particles) :
          particles[i].is_active /\ particles[i].age[1] * 1 > DefaultTimeStep * particles[i].age[2]
          /\ particles[i].age # RatNorm(<<2 * DefaultTimeStep, 1>>)

\* C7: get_stats() returns count 0 and means 0 when no particle is active
\* (so right after clear_particles()); otherwise the count of active
\* particles and the means of speed and height over the active particles.
C7_Stats ==
    LET st == get_stats(particles)
        A == ActiveSet(particles)
        speed == [i \in A |-> Norm(particles[i].velocity)]
        height == [i \in A |-> particles[i].position[2]]
    IN  IF A = {}
        THEN st = [particle_count |-> 0, avg_velocity |-> 0, avg_height |-> 0]
        ELSE /\ st.particle_count = Cardinality(A)
             /\ st.avg_velocity = RoundDiv(SumOver(speed, A), Cardinality(A))
             /\ st.avg_height = RoundDiv(SumOver(height, A), Cardinality(A))

\* an active and an inactive particle that differ in speed and in height
C7_Witness ==
    /\ Idle
    /\ \E i, j \in 1..Len(particles) :
          /\ particles[i].is_active
          /\ ~particles[j].is_active
          /\ Norm(particles[i].velocity) # Norm(particles[j].velocity)
          /\ particles[i].position[2] # particles[j].position[2]
          /\ particles[j].age # <<0, 1>>

\* C10: get_particle_data() returns, for the N active particles in insertion
\* order, 3N position values, 3N colour values and N sizes, the k-th triples
\* and the k-th size belonging to the same particle; N is the particle_count
\* of get_stats() in the same state.
C10_ParticleData ==
    LET d == get_particle_data(particles)
        A == ActiveSet(particles)
        N == Cardinality(A)
        \* the k-th active particle in insertion order
        nth(k) == CHOOSE i \in A : Cardinality({j \in A : j <= i}) = k
    IN  /\ Len(d.positions) = 3 * N
        /\ Len(d.colors) = 3 * N
        /\ Len(d.sizes) = N
        /\ N = get_stats(particles).particle_count
        /\ \A k \in 1..N :
              /\ SubSeq(d.positions, 3 * k - 2, 3 * k) = particles[nth(k)].position
              /\ SubSeq(d.colors, 3 * k - 2, 3 * k) = Props(particles[nth(k)]).color
              /\ d.sizes[k] = Props(particles[nth(k)]).particle_size

\* two active particles of different sizes after an inactive one
C10_Witness ==
    /\ Idle
    /\ Len(particles) >= 2
    /\ ~particles[1].is_active
    /\ particles[2].is_active
    /\ Props(particles[1]).particle_size # Props(particles[2]).particle_size
    /\ call.steps >= 1

\* the particles other than i are the same before and after the step
OthersSame(i) ==
    /\ Len(particles') = Len(particles)
    /\ \A k \in 1..Len(particles) : k # i => particles'[k] = particles[k]

\* of particle i, only the fields of the set F may differ after the step
OnlyFields(i, F) ==
    /\ OthersSame(i)
    /\ "position" \in F \/ particles'[i].position = particles[i].position
    /\ "velocity" \in F \/ particles'[i].velocity = particles[i].velocity
    /\ "age" \in F \/ particles'[i].age = particles[i].age
    /\ particles'[i].is_active = particles[i].is_active
    /\ particles'[i].id = particles[i].id

\* the loop goes on with the first active particle after index i, or ends
LoopGoesOnAfter(i) ==
    \/ /\ pc' = "gravity"
       /\ cur' > i
       /\ cur' <= Len(particles)
       /\ particles[cur'].is_active
       /\ \A k \in (i + 1)..(cur' - 1) : ~particles[k].is_active
    \/ /\ pc' \in {"rebuild", "idle"}
       /\ \A k \in (i + 1)..Len(particles) : ~particles[k].is_active

\* C2: in a sub-step the grid is rebuilt first; then each active particle goes
\* through gravity, viscosity damping, collision response, cohesion, position
\* integration, boundary resolution and age increment, in that order, and all
\* stages of a particle finish before any stage of the next particle starts.
C2_StageOrder ==
    [][ /\ pc = "rebuild" => particles' = particles /\ LoopGoesOnAfter(0)
        /\ pc = "gravity" =>
              pc' = "viscosity" /\ cur' = cur /\ OnlyFields(cur, {"velocity"})
        /\ pc = "viscosity" =>
              pc' = "collide" /\ cur' = cur /\ OnlyFields(cur, {"velocity"})
        /\ pc = "collide" =>
              /\ pc' = "cohesion" /\ cur' = cur
              /\ Len(particles') = Len(particles)
              /\ \A k \in 1..Len(particles) : particles'[k].age = particles[k].age
        /\ pc = "cohesion" =>
              pc' = "integrate" /\ cur' = cur /\ OnlyFields(cur, {"velocity"})
        /\ pc = "integrate" =>
              /\ pc' = "boundary" /\ cur' = cur /\ OnlyFields(cur, {"position"})
              /\ particles'[cur].position =
                     VAdd(particles[cur].position,
                          <<MulDt(particles[cur].velocity[1], sub_dt),
                            MulDt(particles[cur].velocity[2], sub_dt),
                            MulDt(particles[cur].velocity[3], sub_dt)>>)
        /\ pc = "boundary" =>
              pc' = "age" /\ cur' = cur /\ OnlyFields(cur, {"position", "velocity"})
        /\ pc = "age" =>
              /\ OnlyFields(cur, {"age"})
              /\ particles'[cur].age = RatAdd(particles[cur].age, sub_dt)
              /\ LoopGoesOnAfter(cur)
        /\ grid' # grid => pc = "rebuild"
        /\ pc' = "gravity" => pc \in {"rebuild", "age"}
      ]_vars

\* the second particle of the list reaches its last stage in a second sub-step
C2_Witness ==
    /\ pc = "age"
    /\ cur = 2
    /\ call.steps = 2
    /\ particles[1].is_active
    /\ particles[1].age = RatAdd(particles[2].age, sub_dt)

\* every active particle's index is in exactly one bucket, the one of the
\* cell of its position; the buckets hold nothing else
GridMatches(g, ps) ==
    /\ \A i \in ActiveSet(ps) :
          /\ Cardinality(PlacesOf(g, i)) = 1
          /\ \A pl \in PlacesOf(g, i) : pl[1] = get_cell(ps[i].position)
    /\ \A c \in DOMAIN g : \A k \in 1..Len(g[c]) : g[c][k] \in ActiveSet(ps)

\* C6: right after the grid rebuild that starts a sub-step, each active
\* particle's index is in exactly one bucket, the one its current position
\* maps to; no inactive particle's index is in a bucket; no index of an
\* earlier sub-step or of before clear_particles remains.
C6_GridAfterRebuild == [][pc = "rebuild" => GridMatches(grid', particles')]_vars

\* a rebuild has just replaced a grid that held the index of a particle now
\* inactive and, in another cell, the index of a particle that has moved
C6_Witness ==
    /\ pc = "gravity"
    /\ call.steps >= 1
    /\ cur = NextActive(particles, 1)
    /\ GridMatches(grid, particles)
    /\ \E i \in 1..Len(particles) : ~particles[i].is_active /\ particles[i].age # <<0, 1>>
    /\ \E i \in ActiveSet(particles) : particles[i].age # <<0, 1>>

IdSeq(ps) == [k \in 1..Len(ps) |-> ps[k].id]

\* C8: the particle list changes length only through add_particle (one
\* particle appended at the end and returned), add_particles_burst (exactly
\* count particles appended, none when count <= 0) and clear_particles
\* (length 0); update(), get_particle_data() and get_stats() never add,
\* remove or reorder particles: a particle keeps its index until
\* clear_particles.
C8_ListChanges ==
    [][ /\ IdSeq(particles') # IdSeq(particles) =>
              AddParticle \/ AddParticlesBurst \/ ClearParticles
        /\ AddParticle =>
              /\ Len(particles') = Len(particles) + 1
              /\ SubSeq(particles', 1, Len(particles)) = particles
              /\ ret'.value = <<particles'[Len(particles')].id>>
              /\ \A k \in 1..Len(particles) : particles[k].id # ret'.value[1]
        /\ \A center \in BurstCenters, count \in BurstCounts, spread \in BurstSpreads,
              sand_type \in BurstTypes, initial_velocity \in BurstVelocities :
              BurstCall(center, count, spread, sand_type, initial_velocity) =>
                  /\ Len(particles') = Len(particles) + (IF count > 0 THEN count ELSE 0)
                  /\ SubSeq(particles', 1, Len(particles)) = particles
        /\ ClearParticles => Len(particles') = 0
        /\ particles' # <<>> =>
              /\ Len(particles') >= Len(particles)
              /\ \A k \in 1..Len(particles) : particles'[k].id = particles[k].id
      ]_vars

\* two particles added by one burst have kept their indices through an update
C8_Witness ==
    /\ Idle
    /\ Len(particles) = 2
    /\ particles[1].sand_type = "LOURD" /\ particles[2].sand_type = "LOURD"
    /\ particles[1].id < particles[2].id
    /\ call.steps >= 1
    /\ particles[1].age # <<0, 1>>

\* the list with every inactive particle moved onto particle i: same sand
\* type, overlapping it, and moving
Scramble(ps, i) ==
    [k \in 1..Len(ps) |->
        IF ps[k].is_active THEN ps[k]
        ELSE [ps[k] EXCEPT !.position = VAdd(ps[i].position, <<0, 300, 0>>),
                           !.velocity = <<0, -3000, 0>>,
                           !.sand_type = ps[i].sand_type,
                           !.properties = ps[i].properties]]

\* the list without its inactive particles
Compact(ps) == SelectSeq(ps, LAMBDA p : p.is_active)

SameOnActive(ps, qs) ==
    /\ Len(ps) = Len(qs)
    /\ \A k \in 1..Len(ps) : ps[k].is_active => ps[k] = qs[k]

\* C9: a particle whose is_active flag is false is never inserted into the
\* grid, never has its position, velocity or age changed by update(), never
\* changes the state of another particle (the stages that read other
\* particles give the active ones the same result wherever the inactive ones
\* are), is left out of get_particle_data() and get_stats(), and stays in the
\* list at its index.
C9_InactiveSkipped ==
    [][ /\ ~Idle =>
              /\ Len(particles') = Len(particles)
              /\ \A k \in 1..Len(particles) :
                    ~particles[k].is_active => particles'[k] = particles[k]
        /\ (Idle /\ particles' # <<>>) =>
              \A k \in 1..Len(particles) :
                  ~particles[k].is_active =>
                      /\ k <= Len(particles')
                      /\ particles'[k] = particles[k]
        /\ pc = "rebuild" =>
              \A k \in 1..Len(particles) :
                  ~particles[k].is_active => PlacesOf(grid', k) = {}
        /\ pc = "collide" =>
              SameOnActive(particles',
                           IF enable_collisions
                           THEN handle_particle_collisions(Scramble(particles, cur),
                                                           grid, cur)
                           ELSE particles)
        /\ pc = "cohesion" =>
              SameOnActive(particles',
                           IF enable_cohesion /\ Props(particles[cur]).cohesion > 0
                           THEN apply_cohesion(Scramble(particles, cur), grid, cur,
                                               sub_dt)
                           ELSE particles)
        /\ get_stats(particles') = get_stats(Compact(particles'))
        /\ get_particle_data(particles') = get_particle_data(Compact(particles'))
      ]_vars

\* the collision stage of an active particle has run while an inactive
\* particle that took part in an earlier update overlaps it
C9_Witness ==
    /\ pc = "cohesion"
    /\ enable_collisions
    /\ \E k \in 1..Len(particles) :
          LET diff == VSub(particles[cur].position, particles[k].position)
              min_dist == Props(particles[cur]).particle_size
                              + Props(particles[k]).particle_size
          IN  /\ ~particles[k].is_active
              /\ particles[k].age # <<0, 1>>
              /\ Dot(diff, diff) < min_dist * min_dist
              /\ Dot(diff, diff) > MinDistSq

\* C17: a sub_steps value <= 0, zero or negative, is rejected with an error
\* when it is set or at the latest when update() is called: no update() call
\* made with sub_steps <= 0 returns normally, having run no step.
C17_SubStepsRejected ==
    [][(updates' = updates + 1 /\ sub_steps <= 0) => ret'.raised]_vars

(***************************************************************************)
(* SpecProps: particles are created with shared and with custom            *)
(* properties, the property panel of a sand type is edited, and the        *)
(* engine is updated.                                                      *)
(***************************************************************************)
\* property panel edits
MaxEdits == 2

\* the sand types whose panel is edited
PanelTypes == {"VISQUEUX", "LEGER"}

\* slider values of a panel: mass 0.1..5, friction, restitution, cohesion and
\* viscosity 0..1, gravity 0.1..3, size 0.2..1.5
PropertyChoices ==
    { [mass |-> 20, friction |-> 50, restitution |-> 0, cohesion |-> 0,
       viscosity |-> 0, gravity_scale |-> 200, particle_size |-> 400],
      [mass |-> 20, friction |-> 29, restitution |-> 0, cohesion |-> 0,
       viscosity |-> 0, gravity_scale |-> 200, particle_size |-> 400] }

ColorChoices == {<<10, 20, 30>>}

\* custom properties nothing validates: mass 0 and particle_size 0
DegenerateProps ==
    SandProperties("degenerate", <<0, 0, 0>>, 0, 0, 0, 0, 0, 100, 0)

DegenerateChoices ==
    { [position |-> <<10000, 20000, 10000>>, velocity |-> Zero3,
       sand_type |-> "NORMAL", custom_properties |-> Some(DegenerateProps)] }

AddDegenerate == AddFrom(DegenerateChoices)

\* SandTypePanel._update_existing_particles: every particle of the panel's
\* sand type gets a new SandProperties object built from the panel's record
update_existing_particles(ps, sand_type, properties) ==
    [k \in 1..Len(ps) |->
        IF ps[k].sand_type = sand_type
        THEN [ps[k] EXCEPT !.properties = <<"copy", properties>>]
        ELSE ps[k]]

\* the panel of sand_type writes record into the shared record it holds
\* (self.properties is DEFAULT_SAND_PROPERTIES[sand_type]) and updates the
\* existing particles
PanelEdit(sand_type, record) ==
    /\ Idle
    /\ tunes < MaxEdits
    /\ tunes' = tunes + 1
    /\ sand_properties' = [sand_properties EXCEPT ![sand_type] = record]
    /\ particles' = update_existing_particles(particles, sand_type, record)
    /\ ret' = Returned(None)
    /\ UNCHANGED <<inserted, grid, tunables, control, nextId, updates>>

\* SandTypePanel._on_property_changed
OnPropertyChanged ==
    \E sand_type \in PanelTypes, v \in PropertyChoices :
        PanelEdit(sand_type,
                  [sand_properties[sand_type] EXCEPT
                      !.mass = v.mass, !.friction = v.friction,
                      !.restitution = v.restitution, !.cohesion = v.cohesion,
                      !.viscosity = v.viscosity, !.gravity_scale = v.gravity_scale,
                      !.particle_size = v.particle_size])

\* SandTypePanel._on_color_changed
OnColorChanged ==
    \E sand_type \in PanelTypes, color \in ColorChoices :
        PanelEdit(sand_type, [sand_properties[sand_type] EXCEPT !.color = color])

\* the slider positions (hundredths) that PropertySlider.setValue moves one
\* step down: int(value * scale) truncates the binary product of
\* value = position / 100 and scale = 100, which is below position for these
Truncated ==
    {29, 57, 58, 113, 114, 115, 116, 201, 203, 205, 207, 226, 228, 230, 232,
     251, 253, 255, 402, 406, 410, 414, 427, 431, 435, 439, 452, 456, 460,
     464, 477, 481, 485, 489}

\* PropertySlider.setValue followed by PropertySlider.value, for a slider of
\* two decimals whose range is lo..hi: value is in units of 1/unit
slider_round_trip(value, unit, lo, hi) ==
    LET position == (value * 100) \div unit
        truncated == IF position \in Truncated THEN position - 1 ELSE position
        clamped == IF truncated < lo THEN lo ELSE IF truncated > hi THEN hi ELSE truncated
    IN  (clamped * unit) \div 100

\* the record the sliders hold after _reset_properties has set each of them
\* to the field of default
reset_record(default) ==
    [default EXCEPT
        !.mass = slider_round_trip(default.mass, MassDen, 10, 500),
        !.friction = slider_round_trip(default.friction, Pct, 0, 100),
        !.restitution = slider_round_trip(default.restitution, Pct, 0, 100),
        !.cohesion = slider_round_trip(default.cohesion, Milli, 0, 100),
        !.viscosity = slider_round_trip(default.viscosity, Pct, 0, 100),
        !.gravity_scale = slider_round_trip(default.gravity_scale, Pct, 10, 300),
        !.particle_size = slider_round_trip(default.particle_size, Milli, 20, 150)]

\* SandTypePanel._reset_properties: default is the record the panel itself
\* edits; ColorButton.setColor emits no signal, and a slider calls
\* _on_property_changed only when its position changes
ResetProperties(sand_type) ==
    LET default == sand_properties[sand_type]
        record == reset_record(default)
    IN  /\ Idle
        /\ tunes < MaxEdits
        /\ tunes' = tunes + 1
        /\ sand_properties' = [sand_properties EXCEPT ![sand_type] = record]
        /\ particles' = IF record = default THEN particles
                        ELSE update_existing_particles(particles, sand_type, record)
        /\ ret' = Returned(None)
        /\ UNCHANGED <<inserted, grid, tunables, control, nextId, updates>>

OnReset == \E sand_type \in PanelTypes : ResetProperties(sand_type)

NextProps ==
    \/ AddParticle
    \/ AddDegenerate
    \/ OnPropertyChanged
    \/ OnColorChanged
    \/ OnReset
    \/ Update
    \/ Rebuild
    \/ Gravity
    \/ Viscosity
    \/ Collide
    \/ Cohesion
    \/ Integrate
    \/ Boundary
    \/ Age
    \/ GetParticleData

SpecProps == Init /\ [][NextProps]_vars

(***************************************************************************)
(* Properties of the property records (SpecProps).                         *)
(***************************************************************************)
\* the record particle p uses when the shared records are sp
PropsIn(p, sp) == IF p.properties[1] = "shared" THEN sp[p.properties[2]] ELSE p.properties[2]

\* C11: a particle added without custom properties uses its category's
\* shared record: after a change of that record it uses the new values (in
\* update(), here the gravity stage, and in get_particle_data()), whether it
\* was added before or after the change; a particle added with custom
\* properties keeps its own values.
C11_SharedDefaults ==
    [][ /\ \A k \in 1..Len(particles') :
              particles'[k].properties[1] # "own" =>
                  PropsIn(particles'[k], sand_properties') =
                      sand_properties'[particles'[k].sand_type]
        /\ \A k \in 1..Len(particles) :
              particles[k].properties[1] = "own" =>
                  /\ k <= Len(particles')
                  /\ particles'[k].properties = particles[k].properties
        /\ (pc = "gravity" /\ particles[cur].properties[1] # "own") =>
              particles'[cur].velocity[2] =
                  particles[cur].velocity[2]
                      + MulDt(RoundDiv(RoundDiv(gravity[2] * global_gravity_scale, Pct)
                                           * sand_properties[particles[cur].sand_type].gravity_scale,
                                       Pct),
                              sub_dt)
        /\ LET d == get_particle_data(particles')
               act == ActiveIndices(particles', 1)
           IN  \A r \in 1..Len(act) :
                   LET q == particles'[act[r]]
                   IN  IF q.properties[1] = "own"
                       THEN d.sizes[r] = q.properties[2].particle_size
                       ELSE /\ d.sizes[r] = sand_properties'[q.sand_type].particle_size
                            /\ SubSeq(d.colors, 3 * r - 2, 3 * r) =
                                   sand_properties'[q.sand_type].color
      ]_vars

\* the same without the clause on custom properties: what the shared
\* records guarantee to the particles added without custom properties
C11_SharedOnly ==
    [][ \A k \in 1..Len(particles') :
            particles'[k].properties[1] # "own" =>
                PropsIn(particles'[k], sand_properties') =
                    sand_properties'[particles'[k].sand_type]
      ]_vars

\* C18: a particle whose properties have mass <= 0 or particle_size <= 0 is
\* rejected at creation: in every reachable state every particle of the
\* engine has mass > 0 and particle_size > 0.
C18_PositiveMassSize ==
    \A k \in 1..Len(particles) :
        Props(particles[k]).mass > 0 /\ Props(particles[k]).particle_size > 0

\* C26: reset of a sand-type panel restores the defaults: after any sequence
\* of edits made through a category's panel, _reset_properties leaves the
\* category's mass, friction, restitution, cohesion, viscosity,
\* gravity_scale, particle_size and colour at the built-in values the
\* category had at startup.
C26_ResetRestoresDefaults ==
    [][ \A sand_type \in PanelTypes :
            ResetProperties(sand_type) =>
                sand_properties'[sand_type] = DEFAULT_SAND_PROPERTIES[sand_type]
      ]_vars

(***************************************************************************)
(* SpecLab: one or two particles with custom properties are placed and     *)
(* the engine is updated with its default tunables.  Every body has its    *)
(* own properties name, so a particle's release position and velocity are  *)
(* those of the body of that name.                                         *)
(***************************************************************************)
LabProps(name, mass, friction, restitution, cohesion, gravity_scale, particle_size) ==
    Some(SandProperties(name, <<50, 50, 50>>, mass, friction, restitution, cohesion, 0,
                        gravity_scale, particle_size))

Body(position, velocity, sand_type, custom_properties) ==
    [position |-> position, velocity |-> velocity, sand_type |-> sand_type,
     custom_properties |-> custom_properties]

\* released at rest just above the floor: no friction, restitution,
\* cohesion or viscosity
FallBodies ==
    { Body(<<0, 503, 0>>, Zero3, "NORMAL", LabProps("chute 3", 10, 0, 0, 0, 100, 500)),
      Body(<<0, 560, 0>>, Zero3, "NORMAL", LabProps("chute 60", 10, 0, 0, 0, 100, 500)),
      Body(<<0, 900, 0>>, Zero3, "NORMAL", LabProps("chute 400", 10, 0, 0, 0, 100, 500)) }

\* colliding bodies, without gravity: elastic and equal (E), inelastic of
\* masses 1 and 3 with friction (I), oblique with friction (O), and large (G)
CollisionBodies ==
    { Body(<<1000, 10000, 0>>, <<2000, 0, 0>>, "NORMAL",
           LabProps("E gauche", 10, 0, 100, 0, 0, 500)),
      Body(<<1800, 10000, 0>>, <<-2000, 0, 0>>, "NORMAL",
           LabProps("E droite", 10, 0, 100, 0, 0, 500)),
      Body(<<1000, 10000, 0>>, <<3000, 0, 0>>, "LEGER",
           LabProps("I gauche", 10, 50, 0, 0, 0, 500)),
      Body(<<1800, 10000, 0>>, <<-1000, 0, 0>>, "LEGER",
           LabProps("I droite", 30, 50, 0, 0, 0, 500)),
      Body(<<1600, 10600, 0>>, <<-1000, -500, 200>>, "EXPLOSIF",
           LabProps("O", 20, 50, 50, 0, 0, 500)),
      Body(<<1400, 10000, 0>>, Zero3, "REBONDISSANT",
           LabProps("G gauche", 10, 0, 0, 0, 0, 1000)),
      Body(<<2950, 10000, 0>>, Zero3, "REBONDISSANT",
           LabProps("G droite", 10, 0, 0, 0, 0, 1000)) }

\* cohesive bodies at rest, without gravity: cohesion radius 2.2
CohesionBodies ==
    { Body(<<1400, 10000, 0>>, Zero3, "VISQUEUX",
           LabProps("C 1.4", 10, 0, 0, 1000, 0, 550)),
      Body(<<2700, 10000, 0>>, Zero3, "VISQUEUX",
           LabProps("C 2.7", 10, 0, 0, 1000, 0, 550)),
      Body(<<3100, 10000, 0>>, Zero3, "VISQUEUX",
           LabProps("C 3.1", 10, 0, 0, 1000, 0, 550)),
      Body(<<2700, 10000, 0>>, Zero3, "LOURD",
           LabProps("C lourd", 10, 0, 0, 1000, 0, 550)) }

\* bodies thrown at the walls, without gravity: into the edge of the floor
\* and the wall x = -25, and into the edge of the ceiling and the wall x = 25
WallBodies ==
    { Body(<<-24400, 520, 24300>>, <<-3000, -2000, 1000>>, "EXPLOSIF",
           LabProps("M bas", 10, 50, 50, 0, 0, 500)),
      Body(<<24450, 49400, 0>>, <<1500, 3000, -800>>, "EXPLOSIF",
           LabProps("M haut", 10, 20, 100, 0, 0, 500)) }

LabBodies == FallBodies \cup CollisionBodies \cup CohesionBodies \cup WallBodies

AddBody == AddFrom(LabBodies)

NextLab ==
    \/ AddBody
    \/ Update
    \/ Rebuild
    \/ Gravity
    \/ Viscosity
    \/ Collide
    \/ Cohesion
    \/ Integrate
    \/ Boundary
    \/ Age

SpecLab == Init /\ [][NextLab]_vars

(***************************************************************************)
(* Properties of the physics stages (SpecLab).                             *)
(***************************************************************************)
\* the body a particle was made from
Origin(p) == CHOOSE b \in LabBodies : b.custom_properties[1].name = Props(p).name

RatScale(r, k) == RatNorm(<<r[1] * k, r[2]>>)
RatSub(r, s) == RatAdd(r, <<-s[1], s[2]>>)
RatHalf(r) == RatNorm(<<r[1], 2 * r[2]>>)

\* a sub-step has just ended, or none has started
AtSubStepEnd == Idle \/ pc = "rebuild"

\* the values dt takes in a call of update()
DtValues == {IF d = None THEN time_step ELSE d[1] : d \in DtChoices}

\* the sub-step lengths of the update() calls with the dts h, in order
SubStepsOf(h) ==
    [k \in 1..(Len(h) * sub_steps) |-> RatNorm(<<h[((k - 1) \div sub_steps) + 1], sub_steps>>)]

\* the dt of every sub-step particle p has gone through, in order, read at
\* the end of a sub-step: the running or last update() gave call.steps of
\* them, and the update() calls before it gave the others, which make up the
\* rest of the particle's age; the order of these earlier calls is not
\* recorded, and every order they may have had is a member
LivedDts(p) ==
    LET now == RatScale(sub_dt, call.steps)
        before == RatSub(p.age, now)
        earlier == UNION {[1..m -> DtValues] : m \in 0..updates}
    IN  IF before[1] < 0 THEN {<<>>}
        ELSE {SubStepsOf(h) \o [k \in 1..call.steps |-> sub_dt] :
                h \in {e \in earlier : RatNorm(<<SumSeq(e, Len(e)), 1>>) = before}}

\* the free-fall recurrence vy += g * dt; y += vy * dt from height y and
\* vertical velocity vy over the sub-steps seq[k..]; <<rest, 0>> from
\* the sub-step on at which y falls below rest
RECURSIVE FreeFall(_, _, _, _, _, _)
FreeFall(y, vy, g, seq, k, rest) ==
    IF k > Len(seq) THEN <<y, vy>>
    ELSE LET vy1 == vy + MulDt(g, seq[k])
             y1 == y + MulDt(vy1, seq[k])
         IN  IF y1 < rest THEN <<rest, 0>>
             ELSE FreeFall(y1, vy1, g, seq, k + 1, rest)

\* C12: a single particle with zero friction, restitution, cohesion and
\* viscosity, released with zero velocity at height h, is at the end of every
\* sub-step where the free-fall recurrence puts it, until the recurrence
\* takes it below bounds_min_y + particle_size; from that sub-step on it ends
\* every sub-step at that height with vertical velocity 0.
C12_GravityFall ==
    (AtSubStepEnd /\ Len(particles) = 1) =>
        LET p == particles[1]
            pr == Props(p)
            o == Origin(p)
            g == RoundDiv(RoundDiv(gravity[2] * global_gravity_scale, Pct)
                              * pr.gravity_scale, Pct)
            fall(seq) == FreeFall(o.position[2], 0, g, seq, 1,
                                  bounds[1][2] + pr.particle_size)
        IN  (/\ pr.friction = 0 /\ pr.restitution = 0
             /\ pr.cohesion = 0 /\ pr.viscosity = 0
             /\ o.velocity = Zero3) =>
                \E seq \in LivedDts(p) :
                    /\ p.position = <<o.position[1], fall(seq)[1], o.position[3]>>
                    /\ p.velocity = <<0, fall(seq)[2], 0>>

\* the particle released 0.06 above its rest height has fallen for one
\* sub-step, landed in a later one and rests after two updates
C12_Witness ==
    /\ Idle
    /\ updates = 2
    /\ Len(particles) = 1
    /\ Props(particles[1]).name = "chute 60"
    /\ particles[1].age = <<300, 1>>
    /\ particles[1].position = <<0, 500, 0>>
    /\ particles[1].velocity = Zero3

\* component a of the total momentum, mass times velocity summed
Momentum(ps, a) ==
    SumSeq([k \in 1..Len(ps) |-> Props(ps[k]).mass * ps[k].velocity[a]], Len(ps))

TotalMass(ps) == SumSeq([k \in 1..Len(ps) |-> Props(ps[k]).mass], Len(ps))

Cross(a, b) ==
    <<a[2] * b[3] - a[3] * b[2], a[3] * b[1] - a[1] * b[3], a[1] * b[2] - a[2] * b[1]>>

\* the length of d is below len: no component reaches len, and the sum of
\* the squares, then within 32 bits, is below the square of len
Shorter(d, len) ==
    /\ \A k \in Axes : Abs(d[k]) < len
    /\ Dot(d, d) < len * len

\* particles i and j overlap: the distance is below the sum of the sizes and
\* above 0.01
Overlapping(ps, i, j) ==
    LET diff == VSub(ps[i].position, ps[j].position)
        min_dist == Props(ps[i]).particle_size + Props(ps[j]).particle_size
    IN  Shorter(diff, min_dist) /\ Dot(diff, diff) > 10 * 10

\* the velocity of i relative to j, along the line from j to i (not normalised)
Closing(ps, i, j) ==
    Dot(VSub(ps[i].velocity, ps[j].velocity), VSub(ps[i].position, ps[j].position))

\* i and j move along the line that joins them
HeadOn(ps, i, j) ==
    Cross(VSub(ps[i].velocity, ps[j].velocity), VSub(ps[i].position, ps[j].position))
        = Zero3

\* C13: the collision pass of a particle conserves the total momentum (to one
\* unit of velocity per particle); for two overlapping particles of equal
\* mass, restitution 1 and friction 0 that approach head-on with opposite
\* velocities it exchanges the velocities, and the pass of the other
\* particle, which finds them moving apart, leaves the velocities exchanged.
C13_Momentum ==
    [][ pc = "collide" =>
          /\ \A a \in Axes :
                Abs(Momentum(particles', a) - Momentum(particles, a))
                    <= TotalMass(particles)
          /\ Len(particles) = 2 =>
                LET i == cur
                    j == 3 - cur
                IN  /\ (/\ Props(particles[i]).mass = Props(particles[j]).mass
                        /\ Props(particles[i]).restitution = Pct
                        /\ Props(particles[j]).restitution = Pct
                        /\ Props(particles[i]).friction = 0
                        /\ Props(particles[j]).friction = 0
                        /\ Overlapping(particles, i, j)
                        /\ HeadOn(particles, i, j)
                        /\ Closing(particles, i, j) < 0
                        /\ particles[i].velocity = VSub(Zero3, particles[j].velocity)) =>
                           /\ particles'[i].velocity = particles[j].velocity
                           /\ particles'[j].velocity = particles[i].velocity
                    /\ Closing(particles, i, j) > 0 =>
                           /\ particles'[i].velocity = particles[i].velocity
                           /\ particles'[j].velocity = particles[j].velocity
      ]_vars

\* the collision pass has run for both elastic bodies in a first sub-step:
\* the one released with velocity 2 now has -2, the other 2
C13_Witness ==
    /\ pc = "cohesion"
    /\ cur = 2
    /\ call.steps = 1
    /\ Len(particles) = 2
    /\ Props(particles[1]).name = "E gauche"
    /\ Props(particles[2]).name = "E droite"
    /\ particles[1].age = sub_dt
    /\ particles[1].velocity = <<-2000, 0, 0>>
    /\ particles[2].velocity = <<2000, 0, 0>>

\* twice the kinetic energy, mass times squared speed summed
KineticEnergy(ps) ==
    SumSeq([k \in 1..Len(ps) |-> Props(ps[k]).mass * Dot(ps[k].velocity, ps[k].velocity)], Len(ps))

\* what rounding the velocities to 1/1000 can add to KineticEnergy
EnergyRounding(ps) ==
    SumSeq([k \in 1..Len(ps) |-> Props(ps[k]).mass * (2 * (Abs(ps[k].velocity[1]) + Abs(ps[k].velocity[2]) + Abs(ps[k].velocity[3])) + 3)], Len(ps))

\* C14: the collision pass of a particle that overlaps another one, both with
\* restitution 0, while they approach head-on, does not increase the kinetic
\* energy of the pair (beyond the rounding of the velocities), whatever the
\* two positive masses; so neither does the pass of the whole sub-step.
C14_InelasticEnergy ==
    [][ (/\ pc = "collide"
         /\ Len(particles) = 2
         /\ Props(particles[1]).restitution = 0
         /\ Props(particles[2]).restitution = 0
         /\ Props(particles[1]).mass > 0
         /\ Props(particles[2]).mass > 0
         /\ Overlapping(particles, cur, 3 - cur)
         /\ HeadOn(particles, cur, 3 - cur)
         /\ Closing(particles, cur, 3 - cur) < 0) =>
            KineticEnergy(particles') <= KineticEnergy(particles) + EnergyRounding(particles')
      ]_vars

\* the collision pass of the first inelastic body has run in a first sub-step:
\* masses 1 and 3 met with velocities 3 and -1 and both are at rest
C14_Witness ==
    /\ pc = "cohesion"
    /\ cur = 1
    /\ call.steps = 1
    /\ Len(particles) = 2
    /\ Props(particles[1]).name = "I gauche"
    /\ Props(particles[2]).name = "I droite"
    /\ particles[2].age = <<0, 1>>
    /\ particles[1].velocity = Zero3
    /\ particles[2].velocity = Zero3

\* the squared distance between two points
DistSq(a, b) == Dot(VSub(a, b), VSub(a, b))

\* two bodies the cohesion claim speaks of: same category, cohesion > 0, at
\* rest, inside the cohesion radius of each other, not in contact, no gravity
CohesivePair(a, b) ==
    LET pa == a.custom_properties[1]
        pb == b.custom_properties[1]
        min_dist == pa.particle_size + pb.particle_size
    IN  /\ a.sand_type = b.sand_type
        /\ pa.cohesion > 0 /\ pb.cohesion > 0
        /\ a.velocity = Zero3 /\ b.velocity = Zero3
        /\ pa.gravity_scale = 0 /\ pb.gravity_scale = 0
        /\ DistSq(a.position, b.position) >= min_dist * min_dist
        /\ DistSq(a.position, b.position)
              < (CohesionRadiusFactor * pa.particle_size) * (CohesionRadiusFactor * pa.particle_size)
        /\ DistSq(a.position, b.position)
              < (CohesionRadiusFactor * pb.particle_size) * (CohesionRadiusFactor * pb.particle_size)

\* the first sub-step of the first update() has just ended for two particles
FirstSubStepDone ==
    /\ pc = "rebuild"
    /\ updates = 1
    /\ call.steps = 1
    /\ Len(particles) = 2
    /\ particles[1].is_active /\ particles[2].is_active

\* the two particles move towards each other and are closer than at release;
\* at dt = 1/60 the displacement of one sub-step is below 1/1000, and the
\* distance is then only required not to have grown
CloserThanReleased ==
    LET a == Origin(particles[1])
        b == Origin(particles[2])
        before == DistSq(a.position, b.position)
        after == DistSq(particles[1].position, particles[2].position)
    IN  /\ Closing(particles, 1, 2) < 0
        /\ after <= before
        /\ call.dt >= 300 => after < before

\* C15: two active particles of the same category with cohesion > 0, at rest,
\* inside the cohesion radius (4 * particle_size) of each other and not in
\* contact, wherever they are, are strictly closer together after one
\* sub-step with cohesion enabled and no gravity.
C15_CohesionAttracts ==
    (/\ FirstSubStepDone
     /\ enable_cohesion
     /\ CohesivePair(Origin(particles[1]), Origin(particles[2]))) =>
        CloserThanReleased

\* the cells of the two positions are the same or adjacent
AdjacentCells(a, b) ==
    \A k \in Axes : Abs(get_cell(a)[k] - get_cell(b)[k]) <= 1

\* the attraction does take place for the pairs whose cells are adjacent
C15_AdjacentCellsAttract ==
    (/\ FirstSubStepDone
     /\ enable_cohesion
     /\ CohesivePair(Origin(particles[1]), Origin(particles[2]))
     /\ AdjacentCells(Origin(particles[1]).position, Origin(particles[2]).position)) =>
        CloserThanReleased

C15_AdjacentReached ==
    /\ FirstSubStepDone
    /\ call.dt >= 300
    /\ CohesivePair(Origin(particles[1]), Origin(particles[2]))
    /\ AdjacentCells(Origin(particles[1]).position, Origin(particles[2]).position)

\* C16: the cohesion step of a particle changes no position and no velocity
\* but that particle's own, and changes nothing at all when no other particle
\* is of its category: two particles of different categories get no velocity
\* from cohesion, whatever their distance and cohesion values.
C16_CrossCategory ==
    [][ pc = "cohesion" =>
          /\ \A k \in 1..Len(particles) :
                /\ particles'[k].position = particles[k].position
                /\ k # cur => particles'[k] = particles[k]
          /\ (\A k \in 1..Len(particles) :
                 k # cur => particles[k].sand_type # particles[cur].sand_type) =>
                particles' = particles
      ]_vars

\* the cohesion step has run for a cohesive particle whose only companion is
\* of another category, cohesive too, 1.3 away in an adjacent cell and inside
\* the cohesion radius 2.2
C16_Witness ==
    /\ pc = "integrate"
    /\ enable_cohesion
    /\ Len(particles) = 2
    /\ {Props(particles[1]).name, Props(particles[2]).name} = {"C 1.4", "C lourd"}
    /\ particles[1].sand_type # particles[2].sand_type
    /\ Props(particles[1]).cohesion > 0 /\ Props(particles[2]).cohesion > 0
    /\ particles[cur].velocity = Zero3
    /\ DistSq(particles[1].position, particles[2].position) = 1300 * 1300

\* the cells in which the grid of this sub-step stores index idx
StoredCells(idx) == {pl[1] : pl \in PlacesOf(grid, idx)}

\* i and j are grid neighbours: the grid stores them in the same cell or in
\* adjacent cells
GridNeighbours(i, j) ==
    \E ci \in StoredCells(i), cj \in StoredCells(j) :
        \A k \in Axes : Abs(ci[k] - cj[k]) <= 1

\* the indices the collision pass of the current particle examines
Examined ==
    LET neighbors == get_neighbors(grid, particles[cur].position)
    IN  {neighbors[k] : k \in 1..Len(neighbors)}

\* i and j overlap by more than 0.01, so that the separation of the pair is
\* above the resolution 1/1000 of positions
OverlappingClearly(ps, i, j) ==
    LET diff == VSub(ps[i].position, ps[j].position)
        min_dist == Props(ps[i]).particle_size + Props(ps[j]).particle_size
    IN  Shorter(diff, min_dist - 10) /\ Dot(diff, diff) > 10 * 10

\* C19: the collision pass of an active particle examines every active
\* particle that is its grid neighbour, so that each pair of grid neighbours
\* is examined once from either side in a sub-step; and a pair that
\* overlaps when it is visited is resolved at that visit, the second one
\* included.
C19_PairVisitedTwice ==
    [][ (pc = "collide" /\ enable_collisions) =>
          \A j \in 1..Len(particles) :
              (j # cur /\ particles[j].is_active /\ GridNeighbours(cur, j)) =>
                  /\ j \in Examined
                  /\ (Len(particles) = 2 /\ OverlappingClearly(particles, cur, j)) =>
                        particles'[j].position # particles[j].position
      ]_vars

\* the pass does so whenever the particle is still in the cell it is stored in
C19_VisitedFromStoredCell ==
    [][ (/\ pc = "collide"
         /\ enable_collisions
         /\ get_cell(particles[cur].position) \in StoredCells(cur)) =>
          \A j \in 1..Len(particles) :
              (j # cur /\ particles[j].is_active /\ GridNeighbours(cur, j)) =>
                  /\ j \in Examined
                  /\ (Len(particles) = 2 /\ OverlappingClearly(particles, cur, j)) =>
                        particles'[j].position # particles[j].position
      ]_vars

\* C28: after boundary resolution has clamped a particle on an axis, its
\* velocity on that axis is zero or points into the box, away from the wall
\* it was clamped to, whatever velocity it had when it was found outside
\* the limit.
C28_ClampedVelocityInward ==
    [][ pc = "boundary" =>
          LET p == particles[cur]
              q == particles'[cur]
          IN  \A a \in Axes :
                  /\ p.position[a] < bounds[1][a] + Props(p).particle_size =>
                        q.velocity[a] >= 0
                  /\ p.position[a] > bounds[2][a] - Props(p).particle_size =>
                        q.velocity[a] <= 0
      ]_vars

(***************************************************************************)
(* SpecFast: heavy sand of the built-in category, a fast particle and a    *)
(* particle at rest two cells apart, is updated with the default tunables. *)
(***************************************************************************)
\* in one sub-step of 1/120 s the fast particle moves 0.35 and reaches the
\* cell between the two
FastBodies ==
    { Body(<<1490, 30000, 0>>, <<42000, 0, 0>>, "LOURD", None),
      Body(<<3000, 30000, 0>>, Zero3, "LOURD", None) }

AddFast == AddFrom(FastBodies)

NextFast ==
    \/ AddFast
    \/ Update
    \/ Rebuild
    \/ Gravity
    \/ Viscosity
    \/ Collide
    \/ Cohesion
    \/ Integrate
    \/ Boundary
    \/ Age

SpecFast == Init /\ [][NextFast]_vars

\* the built-in particle sizes are at most 0.6
BuiltInSize(p) == Props(p).particle_size <= 600

\* C27: with particle sizes of at most 0.6 and cells of 1.5, whenever the
\* collision pass processes a particle, every other active particle whose
\* current position is closer to it than the sum of the two sizes is among
\* the candidates the grid returns for the particle's position.
C27_OverlapsAreCandidates ==
    (pc = "collide" /\ enable_collisions) =>
        \A j \in 1..Len(particles) :
            (/\ j # cur
             /\ particles[j].is_active
             /\ BuiltInSize(particles[cur]) /\ BuiltInSize(particles[j])
             /\ Shorter(VSub(particles[cur].position, particles[j].position),
                        Props(particles[cur]).particle_size
                            + Props(particles[j]).particle_size)) =>
                j \in Examined

\* the pair i, j is skipped by the collision handling: it does not overlap,
\* distSq >= (size_P + size_O)^2, or it is coincident, distSq <= 1e-4
SkippedPair(ps, i, j) ==
    LET min_dist == Props(ps[i]).particle_size + Props(ps[j]).particle_size
    IN  \/ ~Shorter(VSub(ps[i].position, ps[j].position), min_dist)
        \/ DistSq(ps[i].position, ps[j].position) <= 100

\* v is along d, up to the rounding of the unit normal to 1/1000
AlongLine(v, d) ==
    \A k \in Axes : Abs(Cross(v, d)[k]) <= 2 * (Abs(d[1]) + Abs(d[2]) + Abs(d[3]))

\* C20: the collision pass of a particle leaves positions and velocities
\* unchanged when every pair it forms is out of contact (squared distance
\* >= (size_P + size_O)^2) or coincident (squared distance <= 1e-4), and
\* applies no friction to a pair whose relative velocity has no tangential
\* part, whatever the friction coefficients: the velocities change along the
\* line of centres only. No division by the distance or by the tangent
\* length is made in these cases.
C20_SkippedPairs ==
    [][ (pc = "collide" /\ enable_collisions) =>
          /\ (\A j \in 1..Len(particles) : j # cur => SkippedPair(particles, cur, j)) =>
                particles' = particles
          /\ (/\ Len(particles) = 2
              /\ ~SkippedPair(particles, cur, 3 - cur)
              /\ HeadOn(particles, cur, 3 - cur)) =>
                \A k \in 1..2 :
                    AlongLine(VSub(particles'[k].velocity, particles[k].velocity),
                              VSub(particles[1].position, particles[2].position))
      ]_vars

\* the collision pass has run for a particle and a coincident one, stored in
\* the same cell and moving with the velocity they were released with; the
\* two have friction 0.5
C20_Witness ==
    /\ pc = "cohesion"
    /\ enable_collisions
    /\ Len(particles) = 2
    /\ particles[1].position = particles[2].position
    /\ Props(particles[1]).friction > 0
    /\ particles[1].velocity = Origin(particles[1]).velocity
    /\ particles[1].velocity # Zero3
    /\ \E c \in DOMAIN grid : Len(grid[c]) = 2

\* the collision pass has resolved a head-on contact of two particles with
\* friction 0.5
C20_HeadOnWithFriction ==
    /\ pc = "cohesion"
    /\ cur = 1
    /\ Len(particles) = 2
    /\ Props(particles[1]).name = "I gauche"
    /\ Props(particles[2]).name = "I droite"
    /\ Props(particles[1]).friction > 0
    /\ particles[2].age = <<0, 1>>
    /\ particles[1].velocity = Zero3

\* C21: the collision pass of a particle P that examines the only other
\* particle O and finds it overlapping moves P along the normal (from O to P) and O the opposite way,
\* P by overlap * 0.5 * m_O / (m_P + m_O) and O by overlap * 0.5 * m_P /
\* (m_P + m_O), whether the pair approaches or separates: the heavier one
\* moves less, the centre of mass stays, the distance grows by half the
\* overlap and the pair still overlaps.  Lengths are compared to the
\* resolution of positions and of the distance.
C21_Separation ==
    [][ (/\ pc = "collide"
         /\ enable_collisions
         /\ Len(particles) = 2
         /\ 3 - cur \in Examined
         /\ OverlappingClearly(particles, cur, 3 - cur)) =>
          LET i == cur
              j == 3 - cur
              mP == Props(particles[i]).mass
              mO == Props(particles[j]).mass
              diff == VSub(particles[i].position, particles[j].position)
              min_dist == Props(particles[i]).particle_size + Props(particles[j]).particle_size
              overlap == min_dist - Norm(diff)
              dP == VSub(particles'[i].position, particles[i].position)
              dO == VSub(particles'[j].position, particles[j].position)
              after == VSub(particles'[i].position, particles'[j].position)
              \* the distance is known to 1/1000: what that leaves open in
              \* overlap / distance
              slack == (overlap \div Norm(diff)) + 1
          IN  /\ Dot(dP, diff) >= 0 /\ Dot(dO, diff) <= 0
              /\ AlongLine(dP, diff) /\ AlongLine(dO, diff)
              /\ Abs(2 * (mP + mO) * Norm(dP) - overlap * mO) <= 4 * (mP + mO) + slack * mO
              /\ Abs(2 * (mP + mO) * Norm(dO) - overlap * mP) <= 4 * (mP + mO) + slack * mP
              /\ mP > mO => Dot(dP, dP) <= Dot(dO, dO)
              /\ mP < mO => Dot(dP, dP) >= Dot(dO, dO)
              /\ \A k \in Axes : Abs(mP * dP[k] + mO * dO[k]) <= mP + mO
              /\ Abs(2 * (Norm(after) - Norm(diff)) - overlap) <= 6 + slack
              /\ Dot(after, after) < min_dist * min_dist
      ]_vars

\* the collision pass of the second elastic body has run in a first
\* sub-step: it found the pair separating, left the exchanged velocities and
\* moved the two apart all the same, the first to the left of where its own
\* pass and its integration had put it
C21_Witness ==
    /\ pc = "cohesion"
    /\ cur = 2
    /\ call.steps = 1
    /\ Len(particles) = 2
    /\ Props(particles[1]).name = "E gauche"
    /\ Props(particles[2]).name = "E droite"
    /\ particles[1].velocity = <<-2000, 0, 0>>
    /\ particles[2].velocity = <<2000, 0, 0>>
    /\ particles[1].position[1] < 950 + MulDt(-2000, sub_dt)
    /\ particles[2].position[1] > 1850

\* C22: the collision pass of a particle that examines the only other
\* particle and finds it overlapping leaves both velocities as they are when
\* the relative velocity along the normal is > 0; otherwise the relative
\* velocity along the normal is, after the pass, -e times what it was, e
\* being the mean of the two restitutions: the normal impulse makes it so
\* and the friction impulse that follows does not change it.  The normal
\* components are taken along the line of centres, times the distance, and
\* compared to the resolution of velocities and of the distance.
C22_NormalImpulse ==
    [][ (/\ pc = "collide"
         /\ enable_collisions
         /\ Len(particles) = 2
         /\ 3 - cur \in Examined
         /\ Overlapping(particles, cur, 3 - cur)) =>
          LET i == cur
              j == 3 - cur
              diff == VSub(particles[i].position, particles[j].position)
              e2 == Props(particles[i]).restitution + Props(particles[j]).restitution
              before == Closing(particles, i, j)
              after == Dot(VSub(particles'[i].velocity, particles'[j].velocity), diff)
              slack == 4 * (Abs(diff[1]) + Abs(diff[2]) + Abs(diff[3]))
                          + ((2 * Abs(before)) \div Norm(diff)) + 1
          IN  /\ before > 0 =>
                    /\ particles'[i].velocity = particles[i].velocity
                    /\ particles'[j].velocity = particles[j].velocity
              /\ before <= 0 =>
                    Abs(2 * Pct * after + e2 * before) <= 2 * Pct * slack
      ]_vars

\* the collision pass has run for the oblique body with friction 0.5 and
\* restitution 0.5 against the elastic body it overlaps, in a first sub-step:
\* both velocities have changed, and not along the line of centres only
C22_Witness ==
    /\ pc = "cohesion"
    /\ cur = 1
    /\ call.steps = 1
    /\ Len(particles) = 2
    /\ Props(particles[1]).name = "O"
    /\ Props(particles[2]).name = "E gauche"
    /\ particles[2].age = <<0, 1>>
    /\ particles[1].velocity # Origin(particles[1]).velocity
    /\ particles[2].velocity # Origin(particles[2]).velocity
    /\ ~AlongLine(VSub(particles[1].velocity, Origin(particles[1]).velocity), VSub(particles[1].position, particles[2].position))

\* the axes on which p is outside its limits: below bounds_min + size or
\* above bounds_max - size
OutAxes(p) ==
    {a \in Axes : \/ p.position[a] < bounds[1][a] + Props(p).particle_size
                  \/ p.position[a] > bounds[2][a] - Props(p).particle_size}

\* the limit p is brought back to on axis a
Limit(p, a) ==
    IF p.position[a] < bounds[1][a] + Props(p).particle_size
    THEN bounds[1][a] + Props(p).particle_size
    ELSE bounds[2][a] - Props(p).particle_size

\* component k of a velocity after the resolution of axis a: times
\* -restitution on the axis itself, times 1 - friction * global_friction on
\* the two others
AfterWall(p, v, a, k) ==
    IF k = a
    THEN RoundDiv(-(v * Props(p).restitution), Pct)
    ELSE RoundDiv(v * (Pct * Pct - Props(p).friction * global_friction), Pct * Pct)

\* component k of the velocity of p after the resolution of the axes of
\* OutAxes(p) that are <= a, taken in increasing order
RECURSIVE AfterWalls(_, _, _)
AfterWalls(p, a, k) ==
    IF a = 0 THEN p.velocity[k]
    ELSE IF a \in OutAxes(p) THEN AfterWall(p, AfterWalls(p, a - 1, k), a, k)
    ELSE AfterWalls(p, a - 1, k)

\* C23: boundary resolution goes axis by axis: on an axis where the position
\* is below bounds_min + size or above bounds_max - size the position is set
\* to that limit, the velocity on the axis is multiplied by -restitution and
\* the velocities on the two other axes by 1 - friction * global_friction,
\* with the particle's own friction; an axis inside its limits changes
\* nothing, and no other particle is touched.
C23_BoundaryPerAxis ==
    [][ pc = "boundary" =>
          LET p == particles[cur]
              q == particles'[cur]
          IN  /\ \A k \in 1..Len(particles) : k # cur => particles'[k] = particles[k]
              /\ [q EXCEPT !.position = p.position, !.velocity = p.velocity] = p
              /\ \A a \in Axes :
                    /\ q.position[a] = (IF a \in OutAxes(p) THEN Limit(p, a) ELSE p.position[a])
                    /\ q.velocity[a] = AfterWalls(p, 3, a)
              /\ OutAxes(p) = {} => q = p
      ]_vars

\* boundary resolution has brought a particle back on two axes: it is on the
\* floor limit and on the limit of the wall x = -25; with restitution 0.5 and
\* friction 0.5 its velocity (-3, -2, 1) has become (0.75, 0.5, 0.25): each
\* of x and y reflected and halved by its own wall and halved by the other,
\* z halved twice
C23_Witness ==
    /\ pc = "age"
    /\ Len(particles) = 1
    /\ Props(particles[1]).name = "M bas"
    /\ particles[1].age = <<0, 1>>
    /\ particles[1].position[1] = bounds[1][1] + 500
    /\ particles[1].position[2] = bounds[1][2] + 500
    /\ particles[1].velocity = <<750, 500, 250>>

\* r <= s for two fractions with positive denominators
RatLeq(r, s) == r[1] * s[2] <= s[1] * r[2]

\* C24: a particle is created with age 0 and its age never decreases; the
\* age stage of a sub-step adds dt / sub_steps to the age of the particle it
\* processes and nothing else changes an age, so that an update(dt) with
\* sub_steps >= 1 returns with the age of every active particle increased by
\* dt and the age of every inactive particle as it was.
C24_Age ==
    [][ /\ \A k \in 1..Len(particles') :
              IF k <= Len(particles) /\ particles'[k].id = particles[k].id
              THEN /\ RatLeq(particles[k].age, particles'[k].age)
                   /\ (pc # "age" \/ k # cur) => particles'[k].age = particles[k].age
              ELSE particles'[k].age = <<0, 1>>
        /\ pc = "age" =>
              /\ particles[cur].is_active
              /\ particles'[cur].age =
                    RatAdd(particles[cur].age, RatNorm(<<call.dt, call.sub_steps>>))
        /\ (pc # "idle" /\ pc' = "idle") =>
              /\ call.sub_steps >= 1
              /\ call.steps' = call.sub_steps
              /\ Len(call.ages) = Len(particles')
              /\ \A k \in 1..Len(particles') :
                    particles'[k].age =
                        IF particles'[k].is_active
                        THEN RatAdd(call.ages[k], <<call.dt, 1>>)
                        ELSE call.ages[k]
      ]_vars

\* a second update() of two sub-steps has returned: the active particle,
\* which had an age > 0 when it was called, is older by dt, and the inactive
\* one has the age it had
C24_Witness ==
    /\ Idle
    /\ updates = 2
    /\ call.sub_steps = 2
    /\ call.steps = 2
    /\ Len(particles) = 2
    /\ Len(call.ages) = 2
    /\ particles[1].is_active
    /\ ~particles[2].is_active
    /\ call.ages[1][1] > 0
    /\ particles[1].age = RatAdd(call.ages[1], <<call.dt, 1>>)
    /\ particles[2].age = call.ages[2]
    /\ particles[2].age[1] > 0

(***************************************************************************)
(* presets.py: apply_preset and the scenes of PRESETS, under SpecPresets.  *)
(* The scenes are built by the loops of the source with smaller sizes.     *)
(***************************************************************************)
\* apply_preset calls in one run
MaxPresets == 2

\* the sizes of the scenes: the source has size 8 and 5 for the cubes, 20 by
\* 15 for the wall and 200 particles for the fountain
PresetArgs == [cube_size |-> 1, wall_width |-> 2, wall_height |-> 1, fountain_count |-> 2]

\* two draws of create_fountain: angle 0 with speed 10, angle pi with speed 5
FountainVelocities == {<<3000, 10000, 0>>, <<-1500, 5000, 0>>}

\* physics.add_particle(pos, vel, sand_type) for the positions of seq in
\* order, vels[k] being the velocity of the k-th
RECURSIVE add_all(_, _, _, _, _, _)
add_all(ps, id, seq, vels, sand_type, k) ==
    IF k > Len(seq) THEN ps
    ELSE add_all(add_particle(ps, id + k - 1, seq[k], vels[k], sand_type, None), id,
                 seq, vels, sand_type, k + 1)

AtRest(n) == [k \in 1..n |-> Zero3]

\* create_cube: x and z in range(-half, half + 1), y in range(size), step 0.9
create_cube(ps, id, center, size, sand_type) ==
    LET half == size \div 2
        w == 2 * half + 1
        seq == [k \in 1..(w * size * w) |->
                   VAdd(center, <<900 * (((k - 1) \div (size * w)) - half),
                                  900 * (((k - 1) \div w) % size),
                                  900 * (((k - 1) % w) - half)>>)]
    IN  add_all(ps, id, seq, AtRest(Len(seq)), sand_type, 1)

\* create_wall: y in range(height), x in range(width), step 0.9
create_wall(ps, id, start, width, height, sand_type) ==
    LET seq == [k \in 1..(width * height) |->
                   VAdd(start, <<900 * ((k - 1) % width), 900 * ((k - 1) \div width), 0>>)]
    IN  add_all(ps, id, seq, AtRest(Len(seq)), sand_type, 1)

\* create_fountain: count particles at center, each with a drawn velocity
create_fountain(ps, id, center, count, sand_type, vels) ==
    add_all(ps, id, [k \in 1..count |-> center], vels, sand_type, 1)

PresetNames == {"Cube flottant", "Fontaine", "Mur", "Double cube"}

\* PRESETS[name](physics): the list after the scene has been added to ps
PRESETS(name, ps, id, vels) ==
    CASE name = "Cube flottant" ->
            create_cube(ps, id, <<0, 25000, 0>>, PresetArgs.cube_size, "LOURD")
      [] name = "Fontaine" ->
            create_fountain(ps, id, <<0, 5000, 0>>, PresetArgs.fountain_count, "LEGER", vels)
      [] name = "Mur" ->
            create_wall(ps, id, <<-10000, 500, 0>>, PresetArgs.wall_width,
                        PresetArgs.wall_height, "LOURD")
      [] name = "Double cube" ->
            LET first == create_cube(ps, id, <<-8000, 25000, 0>>, PresetArgs.cube_size, "LOURD")
            IN  create_cube(first, id + Len(first) - Len(ps), <<8000, 25000, 0>>,
                            PresetArgs.cube_size, "LEGER")

\* an apply_preset that does not clear the particles first
apply_preset_keep(ps, id, preset_name, vels) ==
    IF preset_name \in PresetNames
    THEN [particles |-> PRESETS(preset_name, ps, id, vels), value |-> TRUE]
    ELSE [particles |-> ps, value |-> FALSE]

\* apply_preset(physics, preset_name): the list and the value returned
apply_preset(ps, id, preset_name, vels) ==
    IF preset_name \in PresetNames
    THEN [particles |-> PRESETS(preset_name, <<>>, id, vels), value |-> TRUE]
    ELSE [particles |-> ps, value |-> FALSE]

\* the names apply_preset is called with: those of PRESETS and one that is
\* not a key
PresetInputs == PresetNames \cup {"Inconnu"}

FountainDraws == [1..PresetArgs.fountain_count -> FountainVelocities]

ApplyPreset ==
    /\ Idle
    /\ tunes < MaxPresets
    /\ tunes' = tunes + 1
    /\ \E preset_name \in PresetInputs, vels \in FountainDraws :
          LET r == apply_preset(particles, nextId, preset_name, vels)
          IN  /\ particles' = r.particles
              /\ ret' = Returned(Some(r.value))
              /\ nextId' = nextId + (IF r.value THEN Len(r.particles) ELSE 0)
    /\ UNCHANGED <<inserted, grid, sand_properties, tunables, control, updates>>

NextPresets ==
    \/ AddParticle
    \/ ApplyPreset
    \/ Update
    \/ Rebuild
    \/ Gravity
    \/ Viscosity
    \/ Collide
    \/ Cohesion
    \/ Integrate
    \/ Boundary
    \/ Age

SpecPresets == Init /\ [][NextPresets]_vars

\* the scene of a preset, built in an empty engine with the identities from
\* nextId on
Scene(name, vels) == PRESETS(name, <<>>, nextId, vels)

\* C25: a call of apply_preset either returns True and leaves in the engine
\* the particles of one preset and no other, none of the particles that were
\* there before, or returns False and leaves the particle list as it was;
\* the first with a name of PRESETS, the second with any other name.
C25_ApplyPreset ==
    [][ tunes' = tunes + 1 =>
          \/ /\ ret' = Returned(Some(TRUE))
             /\ \E name \in PresetNames, vels \in FountainDraws : particles' = Scene(name, vels)
             /\ \A k \in 1..Len(particles') : particles'[k].id >= nextId
             /\ Len(particles') > 0
          \/ /\ ret' = Returned(Some(FALSE))
             /\ particles' = particles
      ]_vars

\* apply_preset("Double cube") has returned True in an engine that held two
\* particles which update() had moved: the engine holds the two cubes only
C25_Witness ==
    /\ Idle
    /\ tunes = 1
    /\ updates >= 1
    /\ nextId = 4
    /\ Len(particles) = 2
    /\ particles[1].id = 2 /\ particles[2].id = 3
    /\ particles[1].sand_type = "LOURD" /\ particles[2].sand_type = "LEGER"
    /\ particles[1].position = <<-8000, 25000, 0>>
    /\ particles[2].position = <<8000, 25000, 0>>
    /\ particles[1].age = <<0, 1>>
    /\ ret = Returned(Some(TRUE))

\* particles i and j of ps are at the same position, distSq <= 1e-4, with the
\* same velocity and the same properties
Coincident(ps, i, j) ==
    LET diff == VSub(ps[i].position, ps[j].position)
    IN  /\ \A k \in Axes : Abs(diff[k]) <= 10
        /\ Dot(diff, diff) <= MinDistSq
        /\ ps[i].velocity = ps[j].velocity
        /\ Props(ps[i]) = Props(ps[j])

\* C30: in an engine that holds only two active particles which are at the
\* same position (distSq <= 1e-4) with the same velocity and the same
\* properties, collision resolution and cohesion skip the pair on every
\* sub-step: when update() returns the two particles are still at the same
\* position with the same velocity, they are never pushed apart.
C30_CoincidentStays ==
    [][ (/\ ~Idle
         /\ pc' = "idle"
         /\ Len(call.start) = 2
         /\ call.start[1].is_active /\ call.start[2].is_active
         /\ Coincident(call.start, 1, 2)) =>
            Coincident(particles', 1, 2)
      ]_vars

(***************************************************************************)
(* SpecSolo: the collision and cohesion check boxes of the control panel   *)
(* are set between the updates of one or two bodies.                       *)
(***************************************************************************)
\* PhysicsControlPanel: collision_check.toggled sets physics.enable_collisions
SetCollisionsChecked ==
    /\ Idle
    /\ \E v \in BOOLEAN : v # enable_collisions /\ enable_collisions' = v
    /\ ret' = Returned(None)
    /\ UNCHANGED <<inserted, engine, control, counters, time_step, sub_steps,
                   global_gravity_scale, global_friction, enable_cohesion>>

\* PhysicsControlPanel: cohesion_check.toggled sets physics.enable_cohesion
SetCohesionChecked ==
    /\ Idle
    /\ \E v \in BOOLEAN : v # enable_cohesion /\ enable_cohesion' = v
    /\ ret' = Returned(None)
    /\ UNCHANGED <<inserted, engine, control, counters, time_step, sub_steps,
                   global_gravity_scale, global_friction, enable_collisions>>

SoloBodies == CollisionBodies \cup CohesionBodies \cup WallBodies

AddSolo == AddFrom(SoloBodies)

NextSolo ==
    \/ AddSolo
    \/ SetCollisionsChecked
    \/ SetCohesionChecked
    \/ Update
    \/ Rebuild
    \/ Gravity
    \/ Viscosity
    \/ Collide
    \/ Cohesion
    \/ Integrate
    \/ Boundary
    \/ Age

SpecSolo == Init /\ [][NextSolo]_vars

\* particle p after one _update_step(dt) of an engine that holds p alone
RECURSIVE update_alone(_, _, _)
update_alone(p, dt, n) ==
    IF n = 0 THEN p
    ELSE LET v == apply_viscosity(apply_gravity(<<p>>, 1, dt), 1, dt)
             q == handle_boundary_collision(integrate(v, 1, dt)[1])
         IN  update_alone([q EXCEPT !.age = RatAdd(@, dt)], dt, n - 1)

\* C29: with enable_collisions and enable_cohesion both false no particle
\* influences another: a step of update() changes the particle it processes
\* only, an update() that returns leaves every particle with the position,
\* velocity and age it would have had alone in the engine, and between the
\* updates the particles are left as they are, whatever is added after them.
C29_NoInfluence ==
    [][ (~enable_collisions /\ ~enable_cohesion) =>
          /\ Idle =>
                \A k \in 1..Len(particles) :
                    k <= Len(particles') /\ particles'[k] = particles[k]
          /\ ~Idle =>
                \A k \in 1..Len(particles) : k # cur => particles'[k] = particles[k]
          /\ (~Idle /\ pc' = "idle") =>
                /\ Len(particles') = Len(call.start)
                /\ \A k \in 1..Len(call.start) :
                      particles'[k] =
                          IF call.start[k].is_active
                          THEN update_alone(call.start[k], sub_dt, call.sub_steps)
                          ELSE call.start[k]
      ]_vars

\* an update() has returned with both stages switched off: the two elastic
\* bodies, released overlapping and closing, have gone through each other
\* and keep their velocities
C29_Witness ==
    /\ Idle
    /\ updates = 1
    /\ ~enable_collisions /\ ~enable_cohesion
    /\ Len(particles) = 2
    /\ Props(particles[1]).name = "E gauche"
    /\ Props(particles[2]).name = "E droite"
    /\ Overlapping(particles, 1, 2)
    /\ particles[1].position[1] > 1000
    /\ particles[2].position[1] < 1800
    /\ particles[1].velocity = <<2000, 0, 0>>
    /\ particles[2].velocity = <<-2000, 0, 0>>
=============================================================================
